---------------------------- MODULE Spec2Model ----------------------------
(***************************************************************************)
(* A model of the timing and compositing pipeline of the video generator:  *)
(* SyncService.assign_timings (services/sync_service.py), the assembly     *)
(* stages of VideoAssemblyService (services/video_service.py), the motion  *)
(* engine (visual_engine/motion.py), the SFX engine (visual_engine/sfx.py) *)
(* and PipelineOrchestrator.run (orchestrator.py).                         *)
(*                                                                         *)
(* Times are Python floats in the source.  They are modelled as exact      *)
(* rationals [n, d] in lowest terms, so that 0.2 * duration and the        *)
(* division by the screenshot count are computed, not approximated.        *)
(***************************************************************************)
EXTENDS Integers, Sequences, FiniteSets, TLC

VARIABLES
    \* ---- orchestrator steps 3/7 .. 5/7 (visuals, voice, sync) ----
    phase,          \* which step of the timing part runs next
    visual_assets,  \* raw_visuals: the list collect_visuals returned
    audio_chunks,   \* chunks: the list synthesise_script is building
    voice_next,     \* index in Sections of the section synthesise_script handles next
    timed,          \* the list assign_timings returned
    \* ---- PipelineOrchestrator.run and VideoAssemblyService.assemble ----
    pc,             \* the statement of run / assemble that executes next
    files,          \* the paths that exist on disk
    timed_assets,   \* the timed assets handed to assemble
    clip_path,      \* clip_path[i]: the clip_path attribute of timed_assets[i]
    idx,            \* loop index of render_all / _build_video_track
    clips,          \* clips of _build_video_track: the clip paths so far
    video_path,     \* the local video_path of run
    result,         \* the PipelineResult of run
    raised_in,      \* the call whose exception reached run's except clause
    mux_rc,         \* exit code of the mux invocation, NoExit before it ran
    meta_called,    \* self.metadata.generate was entered
    last_call,      \* what the last stage call saw, did and returned
    call_args,      \* the arguments of a stage that is called directly
    drift_log,      \* what assemble measured and logged after the mux
    rendered_for,   \* <<path, d>>: an invocation with -t d wrote the clip at path
    clip_durs       \* clip_durs[i]: the dur paired with clips[i] in _build_video_track

syncVars == <<phase, visual_assets, audio_chunks, voice_next, timed>>

runVars == <<pc, files, timed_assets, clip_path, idx, clips, video_path,
             result, raised_in, mux_rc, meta_called, last_call,
             call_args, drift_log,
                   rendered_for, clip_durs>>

vars == <<syncVars, runVars>>

-----------------------------------------------------------------------------
(* Bounds of the model *)

MaxAssets == 4

\* Durations (whole seconds) the voice provider reports for a section.
Durations == {0, 10, 40}

\* The script's sections, in script order.
Sections == <<"s1", "s2">>

AssetTypes == {"title_card", "screenshot", "generated"}

\* Longest asset list handed to assemble.
MaxClips == 2

\* display_end - display_start (whole seconds) of an asset handed to
\* assemble: an empty window and a window of four seconds.
WindowLengths == {0, 4}

-----------------------------------------------------------------------------
(* Values of the assembly variables before run reaches its first statement *)

\* Python's None, as a return value or an attribute.
NoneRet == "None"

\* mux_rc before the mux invocation has run.
NoExit == -1

\* PipelineResult(topic=topic): video_path None, success False,
\* error_message "".
PipelineResult ==
    [success |-> FALSE, error_message |-> "", video_path |-> NoneRet,
     metadata |-> NoneRet]

NoCall ==
    [stage |-> "none", out |-> NoneRet, existed |-> FALSE, procs |-> 0,
     raised |-> FALSE, error |-> "", ret |-> NoneRet, rc |-> NoExit,
     args |-> <<>>, fallback |-> <<>>, first_ret |-> NoneRet]

\* drift_log before assemble has probed its output.
NoDrift ==
    [probed |-> FALSE, actual |-> [n |-> 0, d |-> 1],
     total_dur |-> [n |-> 0, d |-> 1], quality_checks_enabled |-> FALSE,
     warned |-> FALSE, ret |-> NoneRet]

RunVarsInit(start) ==
    /\ pc = start
    /\ files = {}
    /\ timed_assets = <<>>
    /\ clip_path = <<>>
    /\ idx = 0
    /\ clips = <<>>
    /\ video_path = NoneRet
    /\ result = PipelineResult
    /\ raised_in = "none"
    /\ mux_rc = NoExit
    /\ meta_called = FALSE
    /\ last_call = NoCall
    /\ call_args = <<>>
    /\ drift_log = NoDrift
    /\ rendered_for = {}
    /\ clip_durs = <<>>
    /\ rendered_for = {}
    /\ clip_durs = <<>>

-----------------------------------------------------------------------------
(* Exact rational arithmetic standing for the source's float arithmetic *)

Abs(x) == IF x < 0 THEN -x ELSE x

RECURSIVE Gcd(_, _)
Gcd(a, b) == IF b = 0 THEN a ELSE Gcd(b, a % b)

\* The rational n/d (d > 0) in lowest terms.
Rat(n, d) == LET g == Gcd(Abs(n), d) IN [n |-> n \div g, d |-> d \div g]

RInt(k) == [n |-> k, d |-> 1]
\* over the least common denominator, which keeps the numbers small
Lcd(a, b) == (a.d \div Gcd(a.d, b.d)) * b.d
RAdd(a, b) ==
    Rat(a.n * (Lcd(a, b) \div a.d) + b.n * (Lcd(a, b) \div b.d), Lcd(a, b))
RSub(a, b) ==
    Rat(a.n * (Lcd(a, b) \div a.d) - b.n * (Lcd(a, b) \div b.d), Lcd(a, b))
RMul(a, b) == Rat(a.n * b.n, a.d * b.d)
\* a / k for a positive integer k
RDivInt(a, k) == Rat(a.n, a.d * k)
RLt(a, b) == a.n * b.d < b.n * a.d
RLe(a, b) == a.n * b.d <= b.n * a.d
RMin(a, b) == IF RLe(a, b) THEN a ELSE b
RMax(a, b) == IF RLe(a, b) THEN b ELSE a

Zero == RInt(0)

-----------------------------------------------------------------------------
(* utils/models.py *)

\* VisualAsset as collect_visuals creates it: display window 0.0 .. 0.0.
VisualAsset(id, sid, type) ==
    [id |-> id, section_id |-> sid, asset_type |-> type,
     display_start |-> Zero, display_end |-> Zero]

AudioChunk(sid, dur, start) ==
    [section_id |-> sid, duration_seconds |-> dur, start_time |-> start]

-----------------------------------------------------------------------------
(* SyncService.assign_timings *)

\* timing_map: section_id -> <<start_time, start_time + duration_seconds>>;
\* a later chunk of the same section overwrites an earlier one.
TimingMap(chunks) ==
    [sid \in {chunks[i].section_id : i \in DOMAIN chunks} |->
        LET last == CHOOSE i \in DOMAIN chunks :
                        /\ chunks[i].section_id = sid
                        /\ \A j \in DOMAIN chunks :
                               chunks[j].section_id = sid => j <= i
        IN <<chunks[last].start_time,
             RAdd(chunks[last].start_time, chunks[last].duration_seconds)>>]

OfSection(assets, sid) ==
    SelectSeq(assets, LAMBDA a : a.section_id = sid)

OfType(assets, type) ==
    SelectSeq(assets, LAMBDA a : a.asset_type = type)

\* The keys of by_section in dict insertion order: the section ids in the
\* order of their first asset.
RECURSIVE SectionOrder(_, _)
SectionOrder(assets, seen) ==
    IF assets = <<>> THEN <<>>
    ELSE IF Head(assets).section_id \in seen
         THEN SectionOrder(Tail(assets), seen)
         ELSE <<Head(assets).section_id>>
              \o SectionOrder(Tail(assets), seen \cup {Head(assets).section_id})

TitleCap == RInt(3)
TitleShare == Rat(1, 5)

MutTitleDurationNoCap(section_duration) == RMul(section_duration, TitleShare)

\* title_duration = min(3.0, section_duration * 0.2)
TitleDuration(section_duration) ==
    RMin(TitleCap, RMul(section_duration, TitleShare))

MutPerScreenshotNoSubtract(content_start, content_end, count) ==
    RDivInt(content_end, count)

\* per_screenshot = (content_end - content_start) / len(screenshots)
PerScreenshot(content_start, content_end, count) ==
    RDivInt(RSub(content_end, content_start), count)

MutScreenshotEndOffByOne(content_start, i, per_screenshot) ==
    RAdd(content_start, RMul(RInt(i), per_screenshot))

\* ss.display_end = content_start + (i + 1) * per_screenshot   (i is 0-based)
ScreenshotEnd(content_start, i, per_screenshot) ==
    RAdd(content_start, RMul(RInt(i + 1), per_screenshot))

MutScreenshotStartOneBased(content_start, i, per_screenshot) ==
    RAdd(content_start, RMul(RInt(i + 1), per_screenshot))

\* ss.display_start = content_start + i * per_screenshot
ScreenshotStart(content_start, i, per_screenshot) ==
    RAdd(content_start, RMul(RInt(i), per_screenshot))

\* The title cards of one section as they are appended to assigned.
TitleCards(assets, section_start, section_end) ==
    LET title_cards == OfType(assets, "title_card")
        screenshots == OfType(assets, "screenshot")
        title_duration == TitleDuration(RSub(section_end, section_start))
    IN [k \in DOMAIN title_cards |->
           [title_cards[k] EXCEPT
               !.display_start = section_start,
               !.display_end = IF screenshots = <<>>
                               THEN section_end
                               ELSE RAdd(section_start, title_duration)]]

\* The screenshots of one section as they are appended to assigned.
Screenshots(assets, section_start, section_end) ==
    LET screenshots == OfType(assets, "screenshot")
        title_duration == TitleDuration(RSub(section_end, section_start))
        content_start == RAdd(section_start, title_duration)
        content_end == section_end
        per_screenshot ==
            PerScreenshot(content_start, content_end, Len(screenshots))
    IN [k \in DOMAIN screenshots |->
           [screenshots[k] EXCEPT
               !.display_start =
                   ScreenshotStart(content_start, k - 1, per_screenshot),
               !.display_end =
                   ScreenshotEnd(content_start, k - 1, per_screenshot)]]

MutAssignSectionAtZero(timing_map, section_id, assets) ==
    IF section_id \notin DOMAIN timing_map
    THEN assets
    ELSE TitleCards(assets, timing_map[section_id][1], timing_map[section_id][2])
         \o Screenshots(assets, timing_map[section_id][1],
                        timing_map[section_id][2])

\* One iteration of "for section_id, assets in by_section.items()": what
\* the iteration appends to assigned.
AssignSection(timing_map, section_id, assets) ==
    IF section_id \notin DOMAIN timing_map
    THEN <<>>
    ELSE TitleCards(assets, timing_map[section_id][1], timing_map[section_id][2])
         \o Screenshots(assets, timing_map[section_id][1],
                        timing_map[section_id][2])

RECURSIVE AssignAll(_, _, _)
AssignAll(timing_map, order, assets) ==
    IF order = <<>> THEN <<>>
    ELSE AssignSection(timing_map, Head(order), OfSection(assets, Head(order)))
         \o AssignAll(timing_map, Tail(order), assets)

\* list.sort(key = display_start): a stable sort, as an insertion sort.
RECURSIVE InsertByStart(_, _)
InsertByStart(sorted, a) ==
    IF sorted = <<>> THEN <<a>>
    ELSE IF RLt(a.display_start, Head(sorted).display_start)
         THEN <<a>> \o sorted
         ELSE <<Head(sorted)>> \o InsertByStart(Tail(sorted), a)

RECURSIVE SortByStart(_)
SortByStart(seq) ==
    IF seq = <<>> THEN <<>>
    ELSE InsertByStart(SortByStart(SubSeq(seq, 1, Len(seq) - 1)), seq[Len(seq)])

assign_timings(chunks, assets) ==
    SortByStart(AssignAll(TimingMap(chunks), SectionOrder(assets, {}), assets))

-----------------------------------------------------------------------------
(* PipelineOrchestrator.run, steps 3/7 to 5/7: the inputs of assign_timings *)

\* Durations (whole seconds) the voice provider reports, as rationals.
ReportedDurations == {RInt(d) : d \in Durations}

MutVoiceClockRestarts == Zero

\* t of synthesise_script: the sum of the durations of the chunks so far.
VoiceClock ==
    IF audio_chunks = <<>> THEN Zero
    ELSE RAdd(audio_chunks[Len(audio_chunks)].start_time,
              audio_chunks[Len(audio_chunks)].duration_seconds)

InitSync ==
    /\ phase = "visuals"
    /\ visual_assets = <<>>
    /\ audio_chunks = <<>>
    /\ voice_next = 1
    /\ timed = <<>>
    /\ RunVarsInit("idle")

\* 3/7: one more asset enters raw_visuals.
CollectAsset(sid, type) ==
    /\ phase = "visuals"
    /\ Len(visual_assets) < MaxAssets
    /\ visual_assets' =
           Append(visual_assets, VisualAsset(Len(visual_assets) + 1, sid, type))
    /\ UNCHANGED <<phase, audio_chunks, voice_next, timed>>
    /\ UNCHANGED runVars

\* collect_visuals returns.
VisualsCollected ==
    /\ phase = "visuals"
    /\ phase' = "voice"
    /\ UNCHANGED <<visual_assets, audio_chunks, voice_next, timed>>
    /\ UNCHANGED runVars

\* 4/7, one iteration of synthesise_script that appends a chunk.
SynthesiseSection(dur) ==
    /\ phase = "voice"
    /\ voice_next <= Len(Sections)
    /\ audio_chunks' =
           Append(audio_chunks, AudioChunk(Sections[voice_next], dur, VoiceClock))
    /\ voice_next' = voice_next + 1
    /\ UNCHANGED <<phase, visual_assets, timed>>
    /\ UNCHANGED runVars

\* 4/7, one iteration that appends nothing: empty narration, or a TTS
\* failure with abort_on_tts_failure off ("continue").
SkipSection ==
    /\ phase = "voice"
    /\ voice_next <= Len(Sections)
    /\ voice_next' = voice_next + 1
    /\ UNCHANGED <<phase, visual_assets, audio_chunks, timed>>
    /\ UNCHANGED runVars

\* 5/7: timed = self.sync.assign_timings(script_obj, chunks, raw_visuals)
AssignTimings ==
    /\ phase = "voice"
    /\ voice_next > Len(Sections)
    /\ timed' = assign_timings(audio_chunks, visual_assets)
    /\ phase' = "timed"
    /\ UNCHANGED <<visual_assets, audio_chunks, voice_next>>
    /\ UNCHANGED runVars

NextSync ==
    \/ \E sid \in {Sections[i] : i \in DOMAIN Sections}, type \in AssetTypes :
           CollectAsset(sid, type)
    \/ VisualsCollected
    \/ \E dur \in ReportedDurations : SynthesiseSection(dur)
    \/ SkipSection
    \/ AssignTimings

SpecSync == InitSync /\ [][NextSync]_vars

-----------------------------------------------------------------------------
(* Properties of assign_timings *)

SectionIds == {Sections[i] : i \in DOMAIN Sections}

\* timing_map of the call that produced timed.
Timing == TimingMap(audio_chunks)

\* The assets of a section in the input and in the returned list.
InputOf(sid) == OfSection(visual_assets, sid)
Returned(sid) == OfSection(timed, sid)

CountOf(sid, type) == Len(OfType(InputOf(sid), type))

\* [a.display_start, a.display_end) and [b.display_start, b.display_end)
\* have a point in common.
Overlap(a, b) ==
    /\ RLt(a.display_start, a.display_end)
    /\ RLt(b.display_start, b.display_end)
    /\ RLt(a.display_start, b.display_end)
    /\ RLt(b.display_start, a.display_end)

NonOverlapping(ws) ==
    \A i, j \in DOMAIN ws : i # j => ~Overlap(ws[i], ws[j])

\* The union of the windows of ws is exactly [s, e).  Membership in the
\* union and in [s, e) can only change at an end point of a window or of
\* the section, so it is compared at these points.
UnionIs(ws, s, e) ==
    LET points == {s, e} \cup {ws[i].display_start : i \in DOMAIN ws}
                         \cup {ws[i].display_end : i \in DOMAIN ws}
    IN \A p \in points :
          (\E i \in DOMAIN ws :
               RLe(ws[i].display_start, p) /\ RLt(p, ws[i].display_end))
          <=> (RLe(s, p) /\ RLt(p, e))

Tiles(ws, s, e) == NonOverlapping(ws) /\ UnionIs(ws, s, e)

\* C1 as stated: after assign_timings, in every section that has an audio
\* chunk and at least one asset, the windows of the returned assets are
\* pairwise non-overlapping and their union is exactly the section's
\* interval, whatever number of title cards and screenshots it carries.
C1_TilesWhateverTheAssets ==
    phase = "timed" =>
        \A sid \in DOMAIN Timing :
            InputOf(sid) # <<>> =>
                Tiles(Returned(sid), Timing[sid][1], Timing[sid][2])

\* C1 amended: after assign_timings, in every section that has an audio
\* chunk and exactly one title card, the windows of the returned assets are
\* pairwise non-overlapping and their union is exactly the section's
\* interval, whatever number of screenshots the section carries.
C1_TilesWithOneTitleCard ==
    phase = "timed" =>
        \A sid \in DOMAIN Timing :
            CountOf(sid, "title_card") = 1 =>
                Tiles(Returned(sid), Timing[sid][1], Timing[sid][2])

\* A timed section of positive length with one title card and two or more
\* screenshots.
C1_Witness ==
    /\ phase = "timed"
    /\ \E sid \in DOMAIN Timing :
          /\ RLt(Timing[sid][1], Timing[sid][2])
          /\ CountOf(sid, "title_card") = 1
          /\ CountOf(sid, "screenshot") >= 2
          /\ Len(Returned(sid)) >= 3

\* The input without the assets of the sections that have no audio chunk.
WithTimingOnly(assets) ==
    SelectSeq(assets, LAMBDA a : a.section_id \in DOMAIN Timing)

ExpectedTitle(s, e) ==
    LET fifth == Rat(RSub(e, s).n, RSub(e, s).d * 5)
    IN IF RLt([n |-> 3, d |-> 1], fifth) THEN [n |-> 3, d |-> 1] ELSE fifth

\* C3: a title card of a section with timing [s, e) is assigned
\* [s, s + min(3.0, 0.2*(e-s))) when the section has at least one
\* screenshot, and the full interval [s, e) when it has none.
C3_TitleCardWindow ==
    phase = "timed" =>
        \A i \in DOMAIN timed :
            timed[i].asset_type = "title_card" =>
                LET sid == timed[i].section_id
                    s == Timing[sid][1]
                    e == Timing[sid][2]
                IN /\ timed[i].display_start = s
                   /\ timed[i].display_end =
                         IF CountOf(sid, "screenshot") >= 1
                         THEN RAdd(s, ExpectedTitle(s, e))
                         ELSE e

\* A title card next to a screenshot in a section long enough for the 3 s
\* cap, and a title card alone in its section.
C3_Witness ==
    /\ phase = "timed"
    /\ \E sid \in DOMAIN Timing :
          /\ CountOf(sid, "title_card") >= 1
          /\ CountOf(sid, "screenshot") >= 1
          /\ RLt(RInt(15), RSub(Timing[sid][2], Timing[sid][1]))
    /\ \E sid \in DOMAIN Timing :
          /\ CountOf(sid, "title_card") >= 1
          /\ CountOf(sid, "screenshot") = 0
          /\ RLt(Timing[sid][1], Timing[sid][2])

\* The position (0-based) of a screenshot among the screenshots of its
\* section in input order.
ScreenshotIndex(a) ==
    Cardinality({k \in DOMAIN visual_assets :
                    /\ visual_assets[k].section_id = a.section_id
                    /\ visual_assets[k].asset_type = "screenshot"
                    /\ visual_assets[k].id < a.id})

\* The four windows of the spec's example.
ExampleWindows ==
    << <<[n |-> 3, d |-> 1], [n |-> 49, d |-> 4]>>,
       <<[n |-> 49, d |-> 4], [n |-> 43, d |-> 2]>>,
       <<[n |-> 43, d |-> 2], [n |-> 123, d |-> 4]>>,
       <<[n |-> 123, d |-> 4], [n |-> 40, d |-> 1]>> >>

IsExampleSection(sid) ==
    /\ sid \in DOMAIN Timing
    /\ Timing[sid] = <<[n |-> 0, d |-> 1], [n |-> 40, d |-> 1]>>
    /\ CountOf(sid, "screenshot") = 4

\* C4: in a section with timing [s, e) and count >= 1 screenshots,
\* screenshot i (0-based, input order) is assigned [c + i*p, c + (i+1)*p)
\* with c = s + min(3.0, 0.2*(e-s)) and p = (e - c)/count, the last one ends
\* exactly at e, and for s = 0, e = 40 and 4 screenshots the windows are
\* [3, 12.25), [12.25, 21.5), [21.5, 30.75), [30.75, 40).
C4_ScreenshotWindows ==
    phase = "timed" =>
        /\ \A j \in DOMAIN timed :
              timed[j].asset_type = "screenshot" =>
                  LET sid == timed[j].section_id
                      s == Timing[sid][1]
                      e == Timing[sid][2]
                      count == CountOf(sid, "screenshot")
                      i == ScreenshotIndex(timed[j])
                      c == RAdd(s, ExpectedTitle(s, e))
                      span == RSub(e, c)
                      p == Rat(span.n, span.d * count)
                  IN /\ timed[j].display_start = RAdd(c, Rat(i * p.n, p.d))
                     /\ timed[j].display_end = RAdd(c, Rat((i + 1) * p.n, p.d))
                     /\ i = count - 1 => timed[j].display_end = e
        /\ \A sid \in SectionIds :
              IsExampleSection(sid) =>
                  LET shots == OfType(Returned(sid), "screenshot")
                  IN /\ Len(shots) = 4
                     /\ \A k \in 1..4 :
                           <<shots[k].display_start, shots[k].display_end>>
                               = ExampleWindows[k]

\* The spec's example: a section at 0 lasting 40 s with four screenshots.
C4_Witness ==
    /\ phase = "timed"
    /\ \E sid \in SectionIds :
          IsExampleSection(sid) /\ Len(OfType(Returned(sid), "screenshot")) = 4

SortedByStart(seq) ==
    \A i, j \in DOMAIN seq :
        i < j => RLe(seq[i].display_start, seq[j].display_start)

\* C5 as stated: every input asset whose section has an audio chunk appears
\* exactly once in the result, whatever its asset_type, and the result is
\* ordered by non-decreasing display_start.
C5_ReturnsEveryTimedAsset ==
    phase = "timed" =>
        /\ \A k \in DOMAIN visual_assets :
              visual_assets[k].section_id \in DOMAIN Timing =>
                  Cardinality({i \in DOMAIN timed :
                                  timed[i].id = visual_assets[k].id}) = 1
        /\ SortedByStart(timed)

\* The duration of the chunk that gives a section its timing.
SectionDuration(sid) == RSub(Timing[sid][2], Timing[sid][1])

\* C6 as stated: every returned asset has display_end > display_start, for
\* every chunk duration including 0 and every number of screenshots.
C6_WindowsNeverEmpty ==
    phase = "timed" =>
        \A i \in DOMAIN timed :
            RLt(timed[i].display_start, timed[i].display_end)

\* C6 amended: every returned asset has display_end >= display_start, and
\* display_end > display_start whenever the audio chunk of its section has
\* a positive duration (a chunk of duration 0 gives all assets of its
\* section the empty window [start_time, start_time)).
C6_WindowsEmptyOnlyForEmptyChunk ==
    phase = "timed" =>
        \A i \in DOMAIN timed :
            /\ RLe(timed[i].display_start, timed[i].display_end)
            /\ RLt(Zero, SectionDuration(timed[i].section_id))
                  => RLt(timed[i].display_start, timed[i].display_end)
            /\ SectionDuration(timed[i].section_id) = Zero
                  => timed[i].display_end = timed[i].display_start

\* Title card and screenshots of a section of positive length, and an
\* asset of a section whose chunk has duration 0.
C6_Witness ==
    /\ phase = "timed"
    /\ \E i, j \in DOMAIN timed :
          /\ timed[i].asset_type = "screenshot"
          /\ RLt(Zero, SectionDuration(timed[i].section_id))
          /\ SectionDuration(timed[j].section_id) = Zero

-----------------------------------------------------------------------------
(* Paths.  Every path is derived from the output stem, which is fixed     *)
(* during a run, so a path is named by what follows the stem.             *)

Narration == "narration.mp3"          \* temp_dir/{stem}_narration.mp3
SubtitleFile == "subtitles.ass"       \* the file generate_ass returns
ClipsConcat == "clips_concat.mp4"     \* temp_dir/{stem}_clips_concat.mp4
VideoTrack == "video_track.mp4"       \* temp_dir/{stem}_video_track.mp4
AudioMixed == "audio_mixed.aac"       \* temp_dir/{stem}_audio_mixed.aac
Out == "output/out.mp4"               \* output_dir/{stem}.mp4
FinalVideo == "run_dir/out.mp4"       \* run_dir/{stem}.mp4

\* temp_dir/{stem}_clip_{idx:04d}.mp4, idx the position in the asset list
\* (0-based in the source, position i of the model is idx = i - 1).
StaticClipNames ==
    <<"clip_0000.mp4", "clip_0001.mp4", "clip_0002.mp4", "clip_0003.mp4">>

StaticClip(i) == StaticClipNames[i]

\* asset_id = f"{section_id}_{asset_type}"; the template name that follows
\* it in the file names is a function of the section and the asset type.
FrameNames ==
    [s1 |-> [title_card |-> "frames/s1_title_card.png",
             screenshot |-> "frames/s1_screenshot.png"],
     s2 |-> [title_card |-> "frames/s2_title_card.png",
             screenshot |-> "frames/s2_screenshot.png"]]

AnimatedNames ==
    [s1 |-> [title_card |-> "clips/s1_title_card_animated.mp4",
             screenshot |-> "clips/s1_screenshot_animated.mp4"],
     s2 |-> [title_card |-> "clips/s2_title_card_animated.mp4",
             screenshot |-> "clips/s2_screenshot_animated.mp4"]]

\* frame_path and clip_path of render_asset.
FramePath(a) == FrameNames[a.section_id][a.asset_type]
AnimatedClipPath(a) == AnimatedNames[a.section_id][a.asset_type]

\* sfx_dir/{sfx_name}.wav
SfxNames ==
    [whoosh_soft |-> "sfx/whoosh_soft.wav", whoosh_sharp |-> "sfx/whoosh_sharp.wav",
     glitch_burst |-> "sfx/glitch_burst.wav", film_click |-> "sfx/film_click.wav",
     impact_thud |-> "sfx/impact_thud.wav", power_up |-> "sfx/power_up.wav",
     swoosh |-> "sfx/swoosh.wav", typing_tick |-> "sfx/typing_tick.wav",
     counter_tick |-> "sfx/counter_tick.wav", scan_beep |-> "sfx/scan_beep.wav",
     notification_ping |-> "sfx/notification_ping.wav",
     hum_tech |-> "sfx/hum_tech.wav", light_static |-> "sfx/light_static.wav",
     unknown_cue |-> "sfx/unknown_cue.wav"]

SfxPath(sfx_name) == SfxNames[sfx_name]
SilenceBase == "sfx/silence_base.wav"
SfxTrack == "sfx_track.wav"           \* output_path of build_sfx_track

-----------------------------------------------------------------------------
(* External invocations.  An invocation of ffmpeg exits with a code; the  *)
(* output file of an invocation exists afterwards iff the code is 0.      *)

ExitCodes == {0, 1}

\* The exit code of an invocation that reads inputs: ffmpeg cannot succeed
\* when one of its input files does not exist.
ExitOf(fs, inputs, rc) == IF inputs \subseteq fs THEN rc ELSE 1

\* str(exc) of the RuntimeError of _ffmpeg and of shutil.copy's error.
FfmpegFailed == "FFmpeg failed"
NoSuchFile == "No such file or directory"

\* What a stage call did: the files afterwards, the number of external
\* processes it spawned, either the value it returned or the text of the
\* exception it raised, and the exit code of its first ffmpeg invocation
\* (NoExit when it made none).
Returns(fs, procs, ret) ==
    [files |-> fs, procs |-> procs, raised |-> FALSE, ret |-> ret,
     error |-> "", code |-> NoExit]

Raises(fs, procs, msg) ==
    [files |-> fs, procs |-> procs, raised |-> TRUE, ret |-> NoneRet,
     error |-> msg, code |-> NoExit]

Exited(e, code) == [e EXCEPT !.code = code]

Written(fs, out, rc) == IF rc = 0 THEN fs \cup {out} ELSE fs

MutFfmpegIgnoresExit(rc) == FALSE

\* _ffmpeg: if proc.returncode != 0: raise RuntimeError(...)
FfmpegRaises(rc) == rc # 0

\* A stage that ends in "await self._ffmpeg([... out]); return ret".
FfmpegThenReturn(fs, inputs, out, rc, ret) ==
    LET code == ExitOf(fs, inputs, rc)
    IN  IF FfmpegRaises(code)
        THEN Exited(Raises(Written(fs, out, code), 1, FfmpegFailed), code)
        ELSE Exited(Returns(Written(fs, out, code), 1, ret), code)

\* shutil.copy(src, out)
Copy(fs, src, out, procs, ret) ==
    IF src \in fs THEN Returns(fs \cup {out}, procs, ret)
    ELSE Raises(fs, procs, NoSuchFile)

-----------------------------------------------------------------------------
(* The stages of VideoAssemblyService *)

_concat_audio(fs, rc) ==
    IF Narration \in fs THEN Returns(fs, 0, Narration)
    ELSE FfmpegThenReturn(fs, {}, Narration, rc, Narration)

MutImgToClipAlwaysStatic(fs, i, cp, rc) ==
    IF StaticClip(i) \in fs THEN Returns(fs, 0, StaticClip(i))
    ELSE FfmpegThenReturn(fs, {}, StaticClip(i), rc, StaticClip(i))
_img_to_clip(fs, i, cp, rc) ==
    IF cp # NoneRet /\ cp \in fs THEN Returns(fs, 0, cp)
    ELSE IF StaticClip(i) \in fs THEN Returns(fs, 0, StaticClip(i))
    ELSE FfmpegThenReturn(fs, {}, StaticClip(i), rc, StaticClip(i))

_xfade(fs, cl, rc) ==
    IF ClipsConcat \in fs THEN Returns(fs, 0, ClipsConcat)
    ELSE IF Len(cl) = 1 THEN Copy(fs, cl[1], ClipsConcat, 0, ClipsConcat)
    ELSE FfmpegThenReturn(fs, {cl[k] : k \in DOMAIN cl}, ClipsConcat, rc,
                          ClipsConcat)

_black(fs, out, rc) == FfmpegThenReturn(fs, {}, out, rc, out)

\* How the probed duration of src compares with the target.
Probes == {"within", "longer", "shorter"}

\* One ffprobe process (_duration), then a copy or one ffmpeg process.
\* No statement returns a value.
_trim_pad(fs, src, out, probe, rc) ==
    IF probe = "within" THEN Copy(fs, src, out, 1, NoneRet)
    ELSE LET e == FfmpegThenReturn(fs, {src}, out, rc, NoneRet)
         IN  [e EXCEPT !.procs = 2]

_mix_audio(fs, rc) ==
    IF AudioMixed \in fs THEN Returns(fs, 0, AudioMixed)
    ELSE FfmpegThenReturn(fs, {Narration}, AudioMixed, rc, AudioMixed)

\* Both branches (with and without subtitles) are one _ffmpeg call.
_mux(fs, video, audio, out, rc) ==
    FfmpegThenReturn(fs, {video, audio}, out, rc, NoneRet)

-----------------------------------------------------------------------------
(* MotionEngine (visual_engine/motion.py) *)

\* _static_fallback: one ffmpeg process; its exit code is not looked at.
_static_fallback(fs, frame_path, output_path, rc) ==
    Written(fs, output_path, ExitOf(fs, {frame_path}, rc))

\* render_animated_clip.  fallback holds the arguments of the call of
\* _static_fallback, <<>> when there was none.
render_animated_clip(fs, frame_path, output_path, duration, rc, rc_fallback) ==
    LET code == ExitOf(fs, {frame_path}, rc)
    IN  IF output_path \in fs
        THEN [files |-> fs, procs |-> 0, raised |-> FALSE,
              ret |-> output_path, error |-> "", code |-> NoExit,
              fallback |-> <<>>]
        ELSE IF code = 0
        THEN [files |-> fs \cup {output_path}, procs |-> 1, raised |-> FALSE,
              ret |-> output_path, error |-> "", code |-> code,
              fallback |-> <<>>]
        ELSE [files |-> _static_fallback(fs, frame_path, output_path,
                                         rc_fallback),
              procs |-> 2, raised |-> FALSE, ret |-> output_path,
              error |-> "", code |-> code,
              fallback |-> <<frame_path, output_path, duration>>]

-----------------------------------------------------------------------------
(* SFXEngine (visual_engine/sfx.py) *)

\* The cue names the stages are called with; the last one is not a key of
\* SFX_LIBRARY.
SfxCues == {"whoosh_soft", "swoosh", "unknown_cue"}
SFX_LIBRARY ==
    {"whoosh_soft", "whoosh_sharp", "glitch_burst", "film_click", "impact_thud",
     "power_up", "swoosh", "typing_tick", "counter_tick", "scan_beep",
     "notification_ping", "hum_tech", "light_static"}

\* TEMPLATE_SFX_MAP: (transition cue, ambient cue) of a template
Sfx(transition_sfx, ambient_sfx) ==
    [transition_sfx |-> transition_sfx, ambient_sfx |-> ambient_sfx]

TEMPLATE_SFX_MAP ==
    [typewriter_reveal  |-> Sfx("typing_tick", NoneRet),
     split_reveal       |-> Sfx("swoosh", NoneRet),
     glitch_drop        |-> Sfx("glitch_burst", "light_static"),
     neon_pulse         |-> Sfx("power_up", "hum_tech"),
     countdown_slam     |-> Sfx("impact_thud", NoneRet),
     browser_mockup     |-> Sfx("whoosh_soft", NoneRet),
     phone_frame_scroll |-> Sfx("whoosh_soft", NoneRet),
     spotlight_zoom     |-> Sfx("whoosh_soft", NoneRet),
     comparison_split   |-> Sfx("swoosh", NoneRet),
     polaroid_drop      |-> Sfx("film_click", NoneRet),
     dashboard_reveal   |-> Sfx("scan_beep", "hum_tech"),
     counter_ticker     |-> Sfx("counter_tick", NoneRet),
     bar_race           |-> Sfx("swoosh", NoneRet),
     progress_ring      |-> Sfx("notification_ping", "hum_tech"),
     film_burn          |-> Sfx("film_click", NoneRet),
     lens_flare_wipe    |-> Sfx("whoosh_sharp", NoneRet),
     shatter_break      |-> Sfx("glitch_burst", NoneRet),
     particle_field     |-> Sfx(NoneRet, "hum_tech"),
     matrix_rain        |-> Sfx(NoneRet, "hum_tech"),
     hologram_flicker   |-> Sfx("scan_beep", "hum_tech")]

\* TEMPLATE_SFX_MAP.get(template_name, ("whoosh_soft", None))
MutSfxOfTemplateNoDefault(template_name) ==
    IF template_name \in DOMAIN TEMPLATE_SFX_MAP
    THEN TEMPLATE_SFX_MAP[template_name]
    ELSE Sfx(NoneRet, NoneRet)
SfxOfTemplate(template_name) ==
    IF template_name \in DOMAIN TEMPLATE_SFX_MAP
    THEN TEMPLATE_SFX_MAP[template_name]
    ELSE Sfx("whoosh_soft", NoneRet)

generate_sfx(fs, sfx_name, rc) ==
    IF SfxPath(sfx_name) \in fs THEN Returns(fs, 0, SfxPath(sfx_name))
    ELSE IF sfx_name \notin SFX_LIBRARY THEN Returns(fs, 0, NoneRet)
    ELSE Exited(Returns(Written(fs, SfxPath(sfx_name), rc), 1,
                        IF rc # 0 THEN NoneRet ELSE SfxPath(sfx_name)), rc)

\* _silence: cached by path; the exit code is not looked at.
_silence(fs, output_path, rc) ==
    IF output_path \in fs THEN Returns(fs, 0, output_path)
    ELSE Exited(Returns(Written(fs, output_path, rc), 1, output_path), rc)

\* The loop of build_sfx_track over the assets.  as[k] is the k-th timed
\* asset (its template_name and display_start), rcs[k] the exit code of its
\* generate_sfx invocation.  events is the list of (timestamp, sfx file),
\* invoked the cues an ffmpeg process was spawned for, in order.
RECURSIVE CollectEvents(_, _, _, _)
CollectEvents(fs, as, rcs, k) ==
    IF k = 0 THEN [files |-> fs, procs |-> 0, events |-> <<>>, invoked |-> <<>>]
    ELSE LET before == CollectEvents(fs, as, rcs, k - 1)
             transition_sfx == SfxOfTemplate(as[k].template_name).transition_sfx
         IN  IF transition_sfx = NoneRet THEN before
             ELSE LET g == generate_sfx(before.files, transition_sfx, rcs[k])
                  IN  [files |-> g.files,
                       procs |-> before.procs + g.procs,
                       events |-> IF g.ret = NoneRet THEN before.events
                                  ELSE Append(before.events,
                                              [ts |-> as[k].display_start,
                                               sfx_path |-> g.ret]),
                       invoked |-> IF g.procs = 0 THEN before.invoked
                                   ELSE Append(before.invoked, transition_sfx)]

\* build_sfx_track.  rcs[n + 1] is the exit code of the first _silence
\* invocation, rcs[n + 2] of the mix, rcs[n + 3] of the _silence after a
\* failed mix, n the number of assets.
build_sfx_track(fs, sfx_enabled, as, rcs) ==
    IF ~sfx_enabled \/ SfxTrack \in fs THEN Returns(fs, 0, SfxTrack)
    ELSE
    LET n == Len(as)
        c == CollectEvents(fs, as, rcs, n)
    IN  IF c.events = <<>>
        THEN LET s == _silence(c.files, SfxTrack, rcs[n + 1])
             IN  Returns(s.files, c.procs + s.procs, SfxTrack)
        ELSE
        LET b == _silence(c.files, SilenceBase, rcs[n + 1])
            inputs == {SilenceBase} \cup
                          {c.events[k].sfx_path : k \in DOMAIN c.events}
            code == ExitOf(b.files, inputs, rcs[n + 2])
            mixed == Written(b.files, SfxTrack, code)
            s == _silence(mixed, SfxTrack, rcs[n + 3])
        IN  IF code = 0
            THEN Returns(mixed, c.procs + b.procs + 1, SfxTrack)
            ELSE Returns(s.files, c.procs + b.procs + 1 + s.procs, SfxTrack)

-----------------------------------------------------------------------------
(* PipelineOrchestrator.run (orchestrator.py) with                        *)
(* VideoAssemblyService.assemble (services/video_service.py) inlined at   *)
(* its call.  An exception raised anywhere in the try block of run goes   *)
(* to its except clause: no frame in between catches, except the one of   *)
(* _run_visual_engine.                                                    *)

RunSections == {"s1", "s2"}
RunAssetTypes == {"title_card", "screenshot"}

\* What assemble reads of a timed asset.
TimedAsset(sid, type, window) ==
    [section_id |-> sid, asset_type |-> type, window |-> window]

\* duration = max(1.0, asset.display_end - asset.display_start)
MinClipDuration == 1
RenderDuration(a) ==
    IF MinClipDuration >= a.window THEN MinClipDuration ELSE a.window

\* dur = max(a.display_end - a.display_start, 1.0)
TrackDuration(a) ==
    IF a.window >= MinClipDuration THEN a.window ELSE MinClipDuration

TimedAssets ==
    {TimedAsset(sid, type, window) :
        sid \in RunSections, type \in RunAssetTypes,
        window \in WindowLengths}

\* The place of a section in the script.
SectionIndex(sid) == CHOOSE i \in DOMAIN Sections : Sections[i] = sid

\* The lists assemble is handed: assign_timings returns the assets sorted by
\* display_start, so the sections follow each other in narration order.
AssetLists ==
    {as \in UNION {[1..n -> TimedAssets] : n \in 0..MaxClips} :
        \A i, j \in DOMAIN as :
            i < j => SectionIndex(as[i].section_id)
                         <= SectionIndex(as[j].section_id)}

\* str(exc) of an exception of a collaborator (a provider, the LLM, the
\* subtitle generator): any text, the empty one included.
CollaboratorErrors == {"", "provider error"}

\* The record of a stage call, from what it saw and its effect.  first_ret
\* is what the stage returned when it was called without its output file:
\* the return value of the call that made the file, if the file exists.
Call(stage, out, e, args) ==
    [stage |-> stage, out |-> out, existed |-> out \in files,
     procs |-> e.procs, raised |-> e.raised, error |-> e.error,
     ret |-> e.ret, rc |-> e.code, args |-> args,
     fallback |-> IF "fallback" \in DOMAIN e THEN e.fallback ELSE <<>>,
     first_ret |-> IF last_call.stage = stage /\ out \in files
                   THEN last_call.first_ret ELSE e.ret]

\* except Exception as exc: result.error_message = str(exc);
\* result.success = False; then return result.
Raise(stage, msg) ==
    /\ pc' = "returned"
    /\ raised_in' = stage
    /\ result' = [result EXCEPT !.error_message = msg, !.success = FALSE]

InitRun ==
    /\ phase = "visuals"
    /\ visual_assets = <<>>
    /\ audio_chunks = <<>>
    /\ voice_next = 1
    /\ timed = <<>>
    /\ RunVarsInit("research")

\* A call of a collaborator that returns or raises, touching no file.
Collaborator(at, next, ok, msg) ==
    /\ pc = at
    /\ IF ok THEN /\ pc' = next
                  /\ UNCHANGED <<result, raised_in>>
             ELSE Raise(at, msg)
    /\ UNCHANGED <<files, timed_assets, clip_path, idx, clips, video_path, mux_rc,
                   meta_called, last_call, call_args, drift_log,
                   rendered_for, clip_durs>>
    /\ UNCHANGED syncVars

\* 1/7 .. 4/7
Research(ok, msg) == Collaborator("research", "script", ok, msg)
Script(ok, msg) == Collaborator("script", "visuals", ok, msg)
Visuals(ok, msg) == Collaborator("visuals", "voice", ok, msg)
Voice(ok, msg) == Collaborator("voice", "sync", ok, msg)

\* 5/7: timed = self.sync.assign_timings(...)
Sync(as) ==
    /\ pc = "sync"
    /\ timed_assets' = as
    /\ clip_path' = [i \in DOMAIN as |-> NoneRet]
    /\ pc' = "concat"
    /\ UNCHANGED <<files, idx, clips, video_path, result, raised_in, mux_rc,
                   meta_called, last_call, call_args, drift_log,
                   rendered_for, clip_durs>>
    /\ UNCHANGED syncVars

\* A step of run or assemble that is one stage call: e is its effect.
StageStep(stage, out, e, next) ==
    /\ files' = e.files
    /\ last_call' = Call(stage, out, e, <<>>)
    /\ IF e.raised
       THEN Raise(stage, e.error)
       ELSE /\ pc' = next
            /\ UNCHANGED <<result, raised_in>>

\* run: narration_audio = await self.video._concat_audio(chunks, unique_stem)
RunConcatAudio(rc) ==
    /\ pc = "concat"
    /\ StageStep("run._concat_audio", Narration, _concat_audio(files, rc),
                 "subtitles")
    /\ UNCHANGED <<timed_assets, clip_path, idx, clips, video_path, mux_rc,
                   meta_called, call_args, drift_log,
                   rendered_for, clip_durs>>
    /\ UNCHANGED syncVars

\* run: ass_path = await self.subtitles.generate_ass(...)
Subtitles(ok, msg) ==
    /\ pc = "subtitles"
    /\ IF ok THEN /\ pc' = "a_concat"
                  /\ files' = files \cup {SubtitleFile}
                  /\ UNCHANGED <<result, raised_in>>
             ELSE /\ Raise("subtitles", msg)
                  /\ UNCHANGED files
    /\ UNCHANGED <<timed_assets, clip_path, idx, clips, video_path, mux_rc,
                   meta_called, last_call, call_args, drift_log,
                   rendered_for, clip_durs>>
    /\ UNCHANGED syncVars

\* assemble: narration = await self._concat_audio(audio_chunks, output_stem)
ConcatAudio(rc) ==
    /\ pc = "a_concat"
    /\ StageStep("_concat_audio", Narration, _concat_audio(files, rc),
                 "a_engine")
    /\ UNCHANGED <<timed_assets, clip_path, idx, clips, video_path, mux_rc,
                   meta_called, call_args, drift_log,
                   rendered_for, clip_durs>>
    /\ UNCHANGED syncVars

\* _run_visual_engine up to the loop of render_all: the import, the
\* construction of the renderer and of the SFX engine, the directories.
\* An exception here is caught by _run_visual_engine (line 84).
EngineStart(ok) ==
    /\ pc = "a_engine"
    /\ pc' = IF ok THEN "e_assets" ELSE "a_track"
    /\ idx' = 1
    /\ UNCHANGED <<files, timed_assets, clip_path, clips, video_path, result,
                   raised_in, mux_rc, meta_called, last_call, call_args, drift_log,
                   rendered_for, clip_durs>>
    /\ UNCHANGED syncVars

\* The files after Layer 1+2 of render_asset: the frame is rendered, or
\* copied, or made by _make_fallback_frame, whose exit code is ignored.
WithFrame(fs, frame_path, framed) ==
    IF framed THEN fs \cup {frame_path} ELSE fs

\* One iteration of the loop of render_all: render_asset(timed_assets[idx]).
RenderAsset(framed, rc, rc_fallback) ==
    /\ pc = "e_assets"
    /\ idx <= Len(timed_assets)
    /\ LET a == timed_assets[idx]
           fs == WithFrame(files, FramePath(a), framed)
           duration == RenderDuration(a)
           e == render_animated_clip(fs, FramePath(a), AnimatedClipPath(a),
                                     duration, rc, rc_fallback)
       IN  /\ files' = e.files
           /\ last_call' =
                  Call("render_animated_clip", AnimatedClipPath(a), e,
                       <<FramePath(a), AnimatedClipPath(a), duration>>)
           /\ clip_path' = [clip_path EXCEPT ![idx] = AnimatedClipPath(a)]
           /\ rendered_for' =
                  rendered_for \cup
                      {<<f, duration>> : f \in e.files \ fs}
    /\ idx' = idx + 1
    /\ UNCHANGED <<pc, timed_assets, clips, video_path, result, raised_in, mux_rc,
                   meta_called, call_args, drift_log, clip_durs>>
    /\ UNCHANGED syncVars

\* render_asset raises (a failing shutil.copy in the except branch of the
\* frame render, an unknown template, ...): the exception leaves
\* render_all and is caught by _run_visual_engine, which returns the
\* timed_assets as they are.
RenderAssetRaises ==
    /\ pc = "e_assets"
    /\ idx <= Len(timed_assets)
    /\ pc' = "a_track"
    /\ UNCHANGED <<files, timed_assets, clip_path, idx, clips, video_path, result,
                   raised_in, mux_rc, meta_called, last_call, call_args, drift_log,
                   rendered_for, clip_durs>>
    /\ UNCHANGED syncVars

\* render_all returns.
EngineDone ==
    /\ pc = "e_assets"
    /\ idx > Len(timed_assets)
    /\ pc' = "a_track"
    /\ UNCHANGED <<files, timed_assets, clip_path, idx, clips, video_path, result,
                   raised_in, mux_rc, meta_called, last_call, call_args, drift_log,
                   rendered_for, clip_durs>>
    /\ UNCHANGED syncVars

\* _build_video_track up to its loop: the cached track, or the black
\* track when there are no timed_assets.
TrackStart(rc) ==
    /\ pc = "a_track"
    /\ IF VideoTrack \in files
       THEN /\ pc' = "a_mix"
            /\ UNCHANGED <<files, result, raised_in, last_call>>
       ELSE IF timed_assets = <<>>
       THEN StageStep("_black", VideoTrack, _black(files, VideoTrack, rc),
                      "a_mix")
       ELSE /\ pc' = "t_clips"
            /\ UNCHANGED <<files, result, raised_in, last_call>>
    /\ idx' = 1
    /\ clips' = <<>>
    /\ clip_durs' = <<>>
    /\ UNCHANGED <<timed_assets, clip_path, video_path, mux_rc, meta_called,
                   call_args, drift_log, rendered_for>>
    /\ UNCHANGED syncVars

\* One iteration of the loop of _build_video_track.
ImgToClip(rc) ==
    /\ pc = "t_clips"
    /\ idx <= Len(timed_assets)
    /\ LET dur == TrackDuration(timed_assets[idx])
           e == _img_to_clip(files, idx, clip_path[idx], rc)
       IN  /\ StageStep("_img_to_clip", StaticClip(idx), e, "t_clips")
           /\ clips' = IF e.raised THEN clips ELSE Append(clips, e.ret)
           /\ clip_durs' = IF e.raised THEN clip_durs ELSE Append(clip_durs, dur)
           /\ rendered_for' =
                  rendered_for \cup {<<f, dur>> : f \in e.files \ files}
    /\ idx' = idx + 1
    /\ UNCHANGED <<timed_assets, clip_path, video_path, mux_rc, meta_called,
                   call_args, drift_log>>
    /\ UNCHANGED syncVars

\* concat = await self._xfade(clips, stem)
Xfade(rc) ==
    /\ pc = "t_clips"
    /\ idx > Len(timed_assets)
    /\ StageStep("_xfade", ClipsConcat, _xfade(files, clips, rc), "t_trim")
    /\ UNCHANGED <<timed_assets, clip_path, idx, clips, video_path, mux_rc,
                   meta_called, call_args, drift_log,
                   rendered_for, clip_durs>>
    /\ UNCHANGED syncVars

\* await self._trim_pad(concat, total_dur, out); return out
TrimPad(probe, rc) ==
    /\ pc = "t_trim"
    /\ StageStep("_trim_pad", VideoTrack,
                 _trim_pad(files, ClipsConcat, VideoTrack, probe, rc), "a_mix")
    /\ UNCHANGED <<timed_assets, clip_path, idx, clips, video_path, mux_rc,
                   meta_called, call_args, drift_log,
                   rendered_for, clip_durs>>
    /\ UNCHANGED syncVars

\* mixed_audio = await self._mix_audio(narration, total_dur, output_stem)
MixAudio(rc) ==
    /\ pc = "a_mix"
    /\ StageStep("_mix_audio", AudioMixed, _mix_audio(files, rc), "a_mux")
    /\ UNCHANGED <<timed_assets, clip_path, idx, clips, video_path, mux_rc,
                   meta_called, call_args, drift_log,
                   rendered_for, clip_durs>>
    /\ UNCHANGED syncVars

\* await self._mux(video_track, mixed_audio, out, subtitle_file)
Mux(rc) ==
    /\ pc = "a_mux"
    /\ LET e == _mux(files, VideoTrack, AudioMixed, Out, rc)
       IN  /\ StageStep("_mux", Out, e, "a_drift")
           /\ mux_rc' = e.code
    /\ UNCHANGED <<timed_assets, clip_path, idx, clips, video_path, meta_called, call_args, drift_log,
                   rendered_for, clip_durs>>
    /\ UNCHANGED syncVars

\* cfg.max_sync_drift_sec, and total_dur, the sum of the chunks' durations.
max_sync_drift_sec == RInt(1)
TotalDur == RInt(60)

\* What _duration returns for the muxed file (0.0 when the ffprobe output
\* is not a number).
ProbedDurations == {Zero, Rat(117, 2), RInt(60), RInt(61), Rat(613, 10)}

RAbs(a) == [n |-> Abs(a.n), d |-> a.d]

\* drift = abs(actual - total_dur)
MutDriftSigned(actual, total_dur) == RSub(actual, total_dur)
Drift(actual, total_dur) == RAbs(RSub(actual, total_dur))

\* if self.cfg.quality_checks_enabled and drift > self.cfg.max_sync_drift_sec
MutDriftWarningAtThreshold(quality_checks_enabled, drift) ==
    quality_checks_enabled /\ RLe(max_sync_drift_sec, drift)
DriftWarning(quality_checks_enabled, drift) ==
    quality_checks_enabled /\ RLt(max_sync_drift_sec, drift)

\* actual = await self._duration(out); drift = abs(actual - total_dur);
\* the warning is logged when DriftWarning; return out.
DriftCheck(actual, quality_checks_enabled) ==
    /\ pc = "a_drift"
    /\ drift_log' = [probed |-> TRUE, actual |-> actual, total_dur |-> TotalDur,
                     quality_checks_enabled |-> quality_checks_enabled,
                     warned |-> DriftWarning(quality_checks_enabled,
                                             Drift(actual, TotalDur)),
                     ret |-> Out]
    /\ pc' = "a_probe"
    /\ UNCHANGED <<files, timed_assets, clip_path, idx, clips, video_path, result,
                   raised_in, mux_rc, meta_called, last_call, call_args,
                   rendered_for, clip_durs>>
    /\ UNCHANGED syncVars

\* run: video_path is what assemble returned; the video is moved into
\* run_dir when it exists.
ProbeAndMove ==
    /\ pc = "a_probe"
    /\ IF Out \in files
       THEN /\ files' = (files \ {Out}) \cup {FinalVideo}
            /\ video_path' = FinalVideo
       ELSE /\ video_path' = Out
            /\ UNCHANGED files
    /\ pc' = "metadata"
    /\ UNCHANGED <<timed_assets, clip_path, idx, clips, result, raised_in, mux_rc,
                   meta_called, last_call, call_args, drift_log,
                   rendered_for, clip_durs>>
    /\ UNCHANGED syncVars

\* 7/7: meta = await self.metadata.generate(...); meta_path.write_text(...)
Metadata(ok, msg) ==
    /\ pc = "metadata"
    /\ meta_called' = TRUE
    /\ IF ok THEN /\ pc' = "finish"
                  /\ UNCHANGED <<result, raised_in>>
             ELSE Raise("metadata", msg)
    /\ UNCHANGED <<files, timed_assets, clip_path, idx, clips, video_path, mux_rc,
                   last_call, call_args, drift_log,
                   rendered_for, clip_durs>>
    /\ UNCHANGED syncVars

\* result.video_path = video_path; result.metadata = meta;
\* result.success = True; return result
Finish ==
    /\ pc = "finish"
    /\ result' = [result EXCEPT !.video_path = video_path,
                                !.metadata = "meta", !.success = TRUE]
    /\ pc' = "returned"
    /\ UNCHANGED <<files, timed_assets, clip_path, idx, clips, video_path,
                   raised_in, mux_rc, meta_called, last_call, call_args, drift_log,
                   rendered_for, clip_durs>>
    /\ UNCHANGED syncVars

NextRun ==
    \/ \E ok \in BOOLEAN, msg \in CollaboratorErrors :
           \/ Research(ok, msg)
           \/ Script(ok, msg)
           \/ Visuals(ok, msg)
           \/ Voice(ok, msg)
           \/ Subtitles(ok, msg)
           \/ Metadata(ok, msg)
    \/ \E as \in AssetLists : Sync(as)
    \/ \E rc \in ExitCodes :
           \/ RunConcatAudio(rc)
           \/ ConcatAudio(rc)
           \/ TrackStart(rc)
           \/ ImgToClip(rc)
           \/ Xfade(rc)
           \/ MixAudio(rc)
           \/ Mux(rc)
    \/ \E ok \in BOOLEAN : EngineStart(ok)
    \/ \E framed \in BOOLEAN, rc, rc_fallback \in ExitCodes :
           RenderAsset(framed, rc, rc_fallback)
    \/ RenderAssetRaises
    \/ EngineDone
    \/ \E probe \in Probes, rc \in ExitCodes : TrimPad(probe, rc)
    \/ \E actual \in ProbedDurations, quality_checks_enabled \in BOOLEAN :
           DriftCheck(actual, quality_checks_enabled)
    \/ ProbeAndMove
    \/ Finish

SpecRun == InitRun /\ [][NextRun]_vars

-----------------------------------------------------------------------------
(* The stages called directly, one stage per behaviour, any number of     *)
(* times with the same arguments.  call_args holds the arguments, files   *)
(* starts as some of the files the stage reads.                           *)

\* _build_video_track's loop over the assets.  cps[k] is the clip_path of
\* the k-th asset, rcs[k] the exit code of its static render.
RECURSIVE ClipLoop(_, _, _, _)
ClipLoop(fs, cps, rcs, k) ==
    IF k = 0 THEN [eff |-> Returns(fs, 0, NoneRet), clips |-> <<>>]
    ELSE LET before == ClipLoop(fs, cps, rcs, k - 1)
             e == _img_to_clip(before.eff.files, k, cps[k], rcs[k])
         IN  IF before.eff.raised THEN before
             ELSE [eff |-> [e EXCEPT !.procs = before.eff.procs + e.procs],
                   clips |-> IF e.raised THEN before.clips
                             ELSE Append(before.clips, e.ret)]

\* _build_video_track.  rcs[n + 1] is the exit code of the crossfade (of
\* _black when n = 0), rcs[n + 2] of the trim or pad, n the number of assets.
_build_video_track(fs, cps, rcs, probe) ==
    LET n == Len(cps)
        loop == ClipLoop(fs, cps, rcs, n)
        x == _xfade(loop.eff.files, loop.clips, rcs[n + 1])
        t == _trim_pad(x.files, x.ret, VideoTrack, probe, rcs[n + 2])
    IN  IF VideoTrack \in fs THEN Returns(fs, 0, VideoTrack)
        ELSE IF n = 0 THEN _black(fs, VideoTrack, rcs[n + 1])
        ELSE IF loop.eff.raised THEN loop.eff
        ELSE IF x.raised THEN [x EXCEPT !.procs = loop.eff.procs + x.procs]
        ELSE [t EXCEPT !.procs = loop.eff.procs + x.procs + t.procs,
                       !.ret = IF t.raised THEN NoneRet ELSE VideoTrack]

\* The clip paths and cues the stages are called with.
DirectClipPaths ==
    {NoneRet} \cup {AnimatedNames["s1"][type] : type \in RunAssetTypes}

SeqsUpTo(S, lo, hi) == UNION {[1..n -> S] : n \in lo..hi}

\* The timed assets build_sfx_track is handed: a template with the cue
\* swoosh, one without a transition cue, one TEMPLATE_SFX_MAP does not have.
DirectTemplates == {"split_reveal", "matrix_rain", "unmapped_template"}
DirectStarts == {RInt(0), RInt(4)}

DirectSfxAssets ==
    {as \in SeqsUpTo([template_name : DirectTemplates,
                      display_start : DirectStarts], 0, MaxClips) :
        \A k \in 1..(Len(as) - 1) :
            RLe(as[k].display_start, as[k + 1].display_start)}

\* The clips _xfade can be handed: the clip of position k is the static
\* clip of k or an animated one.
XfadeClipLists ==
    {cl \in SeqsUpTo({StaticClip(k) : k \in 1..MaxClips}
                        \cup (DirectClipPaths \ {NoneRet}), 1, MaxClips) :
        \A k \in DOMAIN cl :
            cl[k] \in {StaticClip(k)} \cup (DirectClipPaths \ {NoneRet})}

DirectArgs ==
    {[stage |-> s] : s \in {"_concat_audio", "_trim_pad", "_mix_audio", "_mux"}}
    \cup {[stage |-> "_img_to_clip", idx |-> i, clip_path |-> cp] :
             i \in 1..MaxClips, cp \in DirectClipPaths}
    \cup {[stage |-> "_xfade", clips |-> cl] : cl \in XfadeClipLists}
    \cup {[stage |-> "_build_video_track", clip_paths |-> cps] :
             cps \in SeqsUpTo(DirectClipPaths, 0, MaxClips)}
    \cup {[stage |-> "render_animated_clip", asset |-> a] : a \in TimedAssets}
    \cup {[stage |-> "generate_sfx", sfx_name |-> name] : name \in SfxCues}
    \cup {[stage |-> "build_sfx_track", sfx_enabled |-> on, assets |-> as] :
             on \in BOOLEAN, as \in DirectSfxAssets}

\* The files a call with these arguments reads.
InputsOf(args) ==
    CASE args.stage = "_img_to_clip" -> {args.clip_path} \ {NoneRet}
      [] args.stage = "_xfade" -> {args.clips[k] : k \in DOMAIN args.clips}
      [] args.stage = "_trim_pad" -> {ClipsConcat}
      [] args.stage = "_build_video_track" ->
             {args.clip_paths[k] : k \in DOMAIN args.clip_paths} \ {NoneRet}
      [] args.stage = "_mix_audio" -> {Narration}
      [] args.stage = "_mux" -> {VideoTrack, AudioMixed}
      [] args.stage = "render_animated_clip" -> {FramePath(args.asset)}
      [] OTHER -> {}

InitStages ==
    /\ phase = "visuals"
    /\ visual_assets = <<>>
    /\ audio_chunks = <<>>
    /\ voice_next = 1
    /\ timed = <<>>
    /\ pc = "direct"
    /\ call_args \in DirectArgs
    /\ files \in SUBSET InputsOf(call_args)
    /\ timed_assets = <<>>
    /\ clip_path = <<>>
    /\ idx = 0
    /\ clips = <<>>
    /\ video_path = NoneRet
    /\ result = PipelineResult
    /\ raised_in = "none"
    /\ mux_rc = NoExit
    /\ meta_called = FALSE
    /\ last_call = NoCall
    /\ drift_log = NoDrift
    /\ rendered_for = {}
    /\ clip_durs = <<>>

\* One direct call of the stage: e is its effect.
Direct(stage, out, e, args) ==
    /\ files' = e.files
    /\ last_call' = Call(stage, out, e, args)
    /\ UNCHANGED <<pc, timed_assets, clip_path, idx, clips, video_path, result,
                   raised_in, mux_rc, meta_called, call_args, drift_log,
                   rendered_for, clip_durs>>
    /\ UNCHANGED syncVars

CallConcatAudio(rc) ==
    /\ call_args.stage = "_concat_audio"
    /\ Direct("_concat_audio", Narration, _concat_audio(files, rc), <<>>)

CallImgToClip(rc) ==
    /\ call_args.stage = "_img_to_clip"
    /\ Direct("_img_to_clip", StaticClip(call_args.idx),
              _img_to_clip(files, call_args.idx, call_args.clip_path, rc),
              <<>>)

CallXfade(rc) ==
    /\ call_args.stage = "_xfade"
    /\ Direct("_xfade", ClipsConcat, _xfade(files, call_args.clips, rc), <<>>)

CallTrimPad(probe, rc) ==
    /\ call_args.stage = "_trim_pad"
    /\ Direct("_trim_pad", VideoTrack,
              _trim_pad(files, ClipsConcat, VideoTrack, probe, rc), <<>>)

CallBuildVideoTrack(rcs, probe) ==
    /\ call_args.stage = "_build_video_track"
    /\ rcs \in [1..(Len(call_args.clip_paths) + 2) -> ExitCodes]
    /\ Direct("_build_video_track", VideoTrack,
              _build_video_track(files, call_args.clip_paths, rcs, probe),
              <<>>)

CallMixAudio(rc) ==
    /\ call_args.stage = "_mix_audio"
    /\ Direct("_mix_audio", AudioMixed, _mix_audio(files, rc), <<>>)

CallMux(rc) ==
    /\ call_args.stage = "_mux"
    /\ Direct("_mux", Out, _mux(files, VideoTrack, AudioMixed, Out, rc), <<>>)

CallRenderAnimatedClip(rc, rc_fallback) ==
    /\ call_args.stage = "render_animated_clip"
    /\ LET a == call_args.asset
       IN  Direct("render_animated_clip", AnimatedClipPath(a),
                  render_animated_clip(files, FramePath(a), AnimatedClipPath(a),
                                       RenderDuration(a), rc, rc_fallback),
                  <<FramePath(a), AnimatedClipPath(a), RenderDuration(a)>>)

CallGenerateSfx(rc) ==
    /\ call_args.stage = "generate_sfx"
    /\ Direct("generate_sfx", SfxPath(call_args.sfx_name),
              generate_sfx(files, call_args.sfx_name, rc), <<>>)

CallBuildSfxTrack(rcs) ==
    /\ call_args.stage = "build_sfx_track"
    /\ rcs \in [1..(Len(call_args.assets) + 3) -> ExitCodes]
    /\ LET c == CollectEvents(files, call_args.assets, rcs,
                              Len(call_args.assets))
           looped == call_args.sfx_enabled /\ SfxTrack \notin files
       IN  Direct("build_sfx_track", SfxTrack,
                  build_sfx_track(files, call_args.sfx_enabled,
                                  call_args.assets, rcs),
                  [events |-> IF looped THEN c.events ELSE <<>>,
                   invoked |-> IF looped THEN c.invoked ELSE <<>>])

ExitCodeLists == SeqsUpTo(ExitCodes, 2, MaxClips + 3)

NextStages ==
    \/ \E rc \in ExitCodes :
           \/ CallConcatAudio(rc)
           \/ CallImgToClip(rc)
           \/ CallXfade(rc)
           \/ CallMixAudio(rc)
           \/ CallMux(rc)
           \/ CallGenerateSfx(rc)
    \/ \E probe \in Probes, rc \in ExitCodes : CallTrimPad(probe, rc)
    \/ \E rcs \in ExitCodeLists, probe \in Probes :
           CallBuildVideoTrack(rcs, probe)
    \/ \E rc, rc_fallback \in ExitCodes : CallRenderAnimatedClip(rc, rc_fallback)
    \/ \E rcs \in ExitCodeLists : CallBuildSfxTrack(rcs)

SpecStages == InitStages /\ [][NextStages]_vars

-----------------------------------------------------------------------------
(* Properties of run, assemble and the stages *)

\* The stage calls assemble makes before the mux, and the mux.
PreMuxStages ==
    {"_concat_audio", "_black", "_img_to_clip", "_xfade", "_trim_pad",
     "_mix_audio"}

AssembleStages == PreMuxStages \cup {"_mux"}

\* The last stage call spawned ffmpeg and ffmpeg exited non-zero.
ExternalFailure == last_call.procs > 0 /\ last_call.rc \notin {NoExit, 0}

\* C7: a non-zero exit of an external invocation in a stage of assemble
\* before the mux (narration concat, static clip render, crossfade,
\* trim/pad, audio mix) never aborts assemble, which goes on towards the
\* mux; only a failure of the mux makes assemble fail.
C7_OnlyMuxFailureAbortsAssemble ==
    /\ (last_call.stage \in PreMuxStages /\ ExternalFailure)
           => (pc # "returned" /\ ~last_call.raised)
    /\ raised_in \in AssembleStages => raised_in = "_mux"

\* C8: when the mux invocation exits non-zero, assemble raises to run, and
\* run returns a result with success = False, a non-empty error_message
\* and no video_path, without having entered the metadata step.
C8_MuxFailureSurfaces ==
    mux_rc \notin {NoExit, 0}
        => /\ pc = "returned"
           /\ raised_in = "_mux"
           /\ result.success = FALSE
           /\ result.error_message # ""
           /\ result.video_path = NoneRet
           /\ result.metadata = NoneRet
           /\ ~meta_called

\* run has returned after a mux invocation that exited non-zero.
C8_Witness ==
    /\ pc = "returned"
    /\ last_call.stage = "_mux"
    /\ mux_rc = 1
    /\ Out \notin files

\* C9: render_animated_clip does not raise when the compositing invocation
\* exits non-zero; it then calls the static fallback with the same frame,
\* output path and duration and returns the output path; and whenever it
\* returns, a clip file exists at the returned path.
C9_RenderAlwaysLeavesAClip ==
    last_call.stage = "render_animated_clip"
        => /\ ~last_call.raised
           /\ ExternalFailure => last_call.fallback = last_call.args
           /\ last_call.ret = last_call.out
           /\ last_call.ret \in files

\* C10: a call of a stage whose output file exists already spawns no
\* external process and returns what the first call returned.
C10_SecondCallIsCached ==
    last_call.existed
        => /\ last_call.procs = 0
           /\ last_call.ret = last_call.first_ret

-----------------------------------------------------------------------------
(* Properties of the cache paths of the visual engine *)

\* render_asset has set the clip_path attribute of the i-th asset.
Rendered(i) == clip_path[i] # NoneRet

\* The render requests of two assets differ in an input that affects the
\* clip: the duration, or the source image (every screenshot has an image
\* file of its own, ss_{section}_{md5(url)}_{count}.png).
RequestsDiffer(i, j) ==
    \/ RenderDuration(timed_assets[i]) # RenderDuration(timed_assets[j])
    \/ /\ timed_assets[i].asset_type = "screenshot"
       /\ timed_assets[j].asset_type = "screenshot"

\* C11: two render requests that differ in an input that affects the
\* content never resolve to the same cached path; in particular two
\* screenshots of one section never share a clip path.
C11_PathsSeparateRequests ==
    \A i, j \in DOMAIN clip_path :
        (i # j /\ Rendered(i) /\ Rendered(j) /\ RequestsDiffer(i, j))
            => clip_path[i] # clip_path[j]

-----------------------------------------------------------------------------
(* Properties of the audio that is muxed *)

\* C12: whenever assemble reaches the mux with SFX enabled (the default),
\* build_sfx_track has built an SFX track from the timed assets, and the
\* track is an input of the mixed audio.
C12_SfxTrackMixedIn == mux_rc # NoExit => SfxTrack \in files

-----------------------------------------------------------------------------
(* The arithmetic of the stages: what _xfade, _trim_pad, the drift check, *)
(* _build_motion_filter and the selector compute from their arguments.    *)

\* a / b rounded to the nearest integer, ties to even: the rounding of
\* Python's format specifications.
RoundHalfEven(a, b) ==
    LET q == a \div b
        r == a % b
    IN  IF 2 * r < b THEN q
        ELSE IF 2 * r > b THEN q + 1
        ELSE IF q % 2 = 0 THEN q ELSE q + 1

\* The value of f"{x:.kf}" with scale = 10^k.
Format(x, scale) ==
    LET g == Gcd(x.d, scale)
    IN  Rat(RoundHalfEven(x.n * (scale \div g), x.d \div g), scale)

Thousand == 1000

MutXfadeCumForgetsSum(durs, td, i) ==
    IF i = 0 THEN Zero ELSE RSub(durs[i], td)

\* cum of _xfade after the iteration that emits transition i:
\* cum += clips[i-1][1] - td (durs[i] is the duration of clips[i-1]).
RECURSIVE XfadeCum(_, _, _)
XfadeCum(durs, td, i) ==
    IF i = 0 THEN Zero
    ELSE RAdd(XfadeCum(durs, td, i - 1), RSub(durs[i], td))

MutXfadeOffsetsFromSecond(durs, td) ==
    [i \in 1..(Len(durs) - 1) |-> Format(XfadeCum(durs, td, i + 1), Thousand)]

\* The offsets of the xfade filters, in order: offset={cum:.3f}.
XfadeOffsets(durs, td) ==
    [i \in 1..(Len(durs) - 1) |-> Format(XfadeCum(durs, td, i), Thousand)]

-----------------------------------------------------------------------------
(* The drift report of assemble *)

\* |actual - total_dur| of the logged measurement exceeds the threshold
BeyondThreshold ==
    LET d == RSub(drift_log.actual, drift_log.total_dur)
    IN  \/ RLt(max_sync_drift_sec, d)
        \/ RLt(d, RSub(Zero, max_sync_drift_sec))

\* C16 (as stated): after a successful mux, a drift warning is logged
\* whenever |actual - target| exceeds the configured threshold.
C16_WarnsWheneverBeyondThreshold ==
    (drift_log.probed /\ BeyondThreshold) => drift_log.warned

\* C16 (amended): after a successful mux the drift warning is logged exactly
\* when quality checks are enabled and |actual - target| exceeds the
\* threshold; whatever the drift is, assemble returns the output path, the
\* muxed file stays, the mux remains the last stage invocation and nothing
\* but the metadata step can still fail the run.
C16_DriftOnlyLogged ==
    drift_log.probed =>
        /\ drift_log.warned <=>
               (drift_log.quality_checks_enabled /\ BeyondThreshold)
        /\ drift_log.ret = Out
        /\ last_call.stage = "_mux" /\ ~last_call.raised
        /\ Out \in files \/ FinalVideo \in files
        /\ raised_in \in {"none", "metadata"}
        /\ video_path \in {NoneRet, Out, FinalVideo}

C16_Witness ==
    /\ drift_log.probed /\ drift_log.warned
    /\ pc = "returned" /\ result.success /\ result.video_path = FinalVideo

\* C17 (as stated): target 60.0 s, threshold 1.0 s: an actual duration of
\* 61.3 s produces no drift warning, one of 58.5 s produces a warning.
C17_DriftExample ==
    (drift_log.probed /\ drift_log.total_dur = RInt(60)
                      /\ max_sync_drift_sec = RInt(1)) =>
        /\ drift_log.actual = Rat(613, 10) => ~drift_log.warned
        /\ drift_log.actual = Rat(117, 2) => drift_log.warned

\* C17 (amended): target 60.0 s, threshold 1.0 s: with quality checks
\* enabled an actual duration of 61.3 s (drift 1.3 s) produces a drift
\* warning and so does one of 58.5 s (drift 1.5 s); with quality checks
\* disabled neither does.
C17_BothExamplesWarn ==
    (drift_log.probed /\ drift_log.total_dur = RInt(60)
                      /\ max_sync_drift_sec = RInt(1)
                      /\ drift_log.actual \in {Rat(613, 10), Rat(117, 2)}) =>
        (drift_log.warned <=> drift_log.quality_checks_enabled)

C17_Witness ==
    /\ drift_log.probed /\ drift_log.actual = Rat(613, 10)
    /\ drift_log.total_dur = RInt(60) /\ drift_log.quality_checks_enabled
    /\ drift_log.warned

-----------------------------------------------------------------------------
(* The arithmetic of the stages: each function is called directly with    *)
(* numeric arguments (call_args), any number of times; last_call records  *)
(* what the call computed and handed to ffmpeg.                           *)

MaxXfadeClips == 3

\* dur of a clip: max(a.display_end - a.display_start, 1.0)
XfadeDurations == {RInt(1), Rat(5, 2), RInt(5)}

\* cfg.transition_duration
TransitionDurations == {Rat(1, 2), Rat(3333, 10000)}

XfadeArgs ==
    {[stage |-> "_xfade", durs |-> durs, td |-> td] :
        durs \in SeqsUpTo(XfadeDurations, 1, MaxXfadeClips),
        td \in TransitionDurations}

\* The clips handed to _xfade: (path, dur) pairs, here the static clips.
XfadeClips(durs) == [k \in DOMAIN durs |-> StaticClip(k)]

\* A call of a function with numeric arguments: e is its effect on the
\* files, computed what it computed.
Computes(stage, out, e, computed) ==
    /\ pc = "calc"
    /\ call_args.stage = stage
    /\ files' = e.files
    /\ last_call' = Call(stage, out, e, computed)
    /\ UNCHANGED <<pc, timed_assets, clip_path, idx, clips, video_path, result,
                   raised_in, mux_rc, meta_called, call_args, drift_log,
                   rendered_for, clip_durs>>
    /\ UNCHANGED syncVars

\* concat = await self._xfade(clips, stem)
ComputeXfade(rc) ==
    /\ call_args.stage = "_xfade"
    /\ LET e == _xfade(files, XfadeClips(call_args.durs), rc)
       IN  Computes("_xfade", ClipsConcat, e,
                    IF e.procs > 0
                    THEN XfadeOffsets(call_args.durs, call_args.td)
                    ELSE <<>>)

\* _duration: float(stdout) of ffprobe, 0.0 when stdout is not a number.
\* real is the duration of the file, parsed whether ffprobe printed one.
_duration(real, parsed) == IF parsed THEN real ELSE Zero

\* abs(actual - target) < 0.1
Tenth == Rat(1, 10)

\* Which of the three branches of _trim_pad runs.
TrimPadProbe(actual, target) ==
    IF RLt(RAbs(RSub(actual, target)), Tenth) THEN "within"
    ELSE IF RLt(target, actual) THEN "longer"
    ELSE "shorter"

\* tpad=stop_mode=clone:stop_duration={target - actual}
StopDuration(actual, target) == RSub(target, actual)

\* The duration of the file _trim_pad writes: src copied, cut at -t target,
\* or src followed by stop_duration seconds of its last frame.
TrimPadDuration(real, target, parsed) ==
    LET actual == _duration(real, parsed)
        probe == TrimPadProbe(actual, target)
    IN  IF probe = "within" THEN real
        ELSE IF probe = "longer" THEN RMin(real, target)
        ELSE RAdd(real, StopDuration(actual, target))

\* Durations of the concatenated track and targets (total_dur).
TrackDurations == {Rat(117, 2), Rat(1199, 20), RInt(60), Rat(1201, 20), RInt(62)}
TrimPadTargets == {RInt(59), RInt(60)}

TrimPadArgs ==
    {[stage |-> "_trim_pad", real |-> real, target |-> target, parsed |-> parsed] :
        real \in TrackDurations, target \in TrimPadTargets, parsed \in BOOLEAN}

\* await self._trim_pad(concat, total_dur, out)
ComputeTrimPad(rc) ==
    /\ call_args.stage = "_trim_pad"
    /\ LET actual == _duration(call_args.real, call_args.parsed)
           probe == TrimPadProbe(actual, call_args.target)
           e == _trim_pad(files, ClipsConcat, VideoTrack, probe, rc)
       IN  Computes("_trim_pad", VideoTrack, e,
                    [actual |-> actual, probe |-> probe,
                     stop_duration |-> StopDuration(actual, call_args.target),
                     duration |-> TrimPadDuration(call_args.real,
                                                  call_args.target,
                                                  call_args.parsed)])

\* MOTION_PRESETS (motion.py)
Preset(zs, ze, pxs, pxe, pys, pye) ==
    [zoom_start |-> zs, zoom_end |-> ze, pan_x_start |-> pxs,
     pan_x_end |-> pxe, pan_y_start |-> pys, pan_y_end |-> pye]

MOTION_PRESETS ==
    [slow_push_in   |-> Preset(RInt(1), Rat(108, 100), 0, 0, 0, 0),
     slow_pull_out  |-> Preset(Rat(108, 100), RInt(1), 0, 0, 0, 0),
     drift_left     |-> Preset(Rat(105, 100), Rat(105, 100), 30, -30, 0, 0),
     drift_right    |-> Preset(Rat(105, 100), Rat(105, 100), -30, 30, 0, 0),
     diagonal_float |-> Preset(Rat(103, 100), Rat(108, 100), -20, 20, -15, 15),
     pendulum_sway  |-> Preset(Rat(102, 100), Rat(102, 100), -15, 15, 0, 0),
     static         |-> Preset(RInt(1), RInt(1), 0, 0, 0, 0)]

\* int(x) of a non-negative float
Floor(x) == x.n \div x.d

Max(a, b) == IF a >= b THEN a ELSE b

\* total_frames = max(1, int(duration * fps))
TotalFrames(duration, fps) == Max(1, Floor(RMul(duration, RInt(fps))))

\* {zs:.4f} and {(ze-zs)/total_frames:.8f}
TenThousand == 10000
HundredMillion == 100000000

\* abs(ze - zs) < 0.001
ZoomTolerance == Rat(1, 1000)

\* (ze - zs) / total_frames as the filter text carries it
MutZoomStepPerClip(zs, ze, total_frames) == Format(RSub(ze, zs), HundredMillion)
ZoomStep(zs, ze, total_frames) ==
    Format(RDivInt(RSub(ze, zs), total_frames), HundredMillion)

\* int(x) of a float of either sign: towards zero
Trunc(x) == IF x.n >= 0 THEN x.n \div x.d ELSE 0 - ((0 - x.n) \div x.d)

\* int(preset["pan_x_start"] * intensity)
ScaledPan(pan, intensity) == Trunc(RMul(RInt(pan), intensity))

\* scale_w = int(w * max(zs, ze) * 1.1); scale_w += scale_w % 2
PreScale == Rat(11, 10)
ScaleDim(w, zs, ze) ==
    LET s == Floor(RMul(RMul(RInt(w), RMax(zs, ze)), PreScale))
    IN  s + (s % 2)

\* The filter _build_motion_filter returns: the zoom z = zs when constant
\* and z = zs + step * on otherwise, the pan of x and y from (pxs, pys) to
\* (pxe, pye) over total_frames, and the size the input is scaled to.
_build_motion_filter(preset, duration, intensity, fps, w, h) ==
    LET total_frames == TotalFrames(duration, fps)
        zs == preset.zoom_start
        zoom_range == RMul(RSub(preset.zoom_end, zs), intensity)
        ze == RAdd(zs, zoom_range)
        constant == RLt(RAbs(RSub(ze, zs)), ZoomTolerance)
    IN  [total_frames |-> total_frames,
         constant |-> constant,
         zs |-> Format(zs, TenThousand),
         step |-> IF constant THEN Zero ELSE ZoomStep(zs, ze, total_frames),
         pxs |-> ScaledPan(preset.pan_x_start, intensity),
         pxe |-> ScaledPan(preset.pan_x_end, intensity),
         pys |-> ScaledPan(preset.pan_y_start, intensity),
         pye |-> ScaledPan(preset.pan_y_end, intensity),
         scale_w |-> ScaleDim(w, zs, ze),
         scale_h |-> ScaleDim(h, zs, ze)]

\* The zoom zoompan evaluates at output frame on = n.
ZoomAt(filter, n) ==
    IF filter.constant THEN filter.zs
    ELSE RAdd(filter.zs, RMul(filter.step, RInt(n)))

MotionDurations == {Rat(1, 100), RInt(1), RInt(3)}
MotionIntensities == {Rat(1, 100), Rat(7, 20), Rat(1, 2), RInt(1), RInt(2)}
FrameRates == {24, 30}
\* canvas_width x canvas_height: the default and 720p
Canvases == {[w |-> 1920, h |-> 1080], [w |-> 1280, h |-> 720]}

MotionArgs ==
    {[stage |-> "_build_motion_filter", motion |-> m, duration |-> dur,
      intensity |-> i, fps |-> fps, canvas |-> c] :
        m \in DOMAIN MOTION_PRESETS, dur \in MotionDurations,
        i \in MotionIntensities, fps \in FrameRates, c \in Canvases}

\* vf = self._build_motion_filter(preset_vals, duration, intensity)
ComputeMotionFilter ==
    /\ call_args.stage = "_build_motion_filter"
    /\ Computes("_build_motion_filter", NoneRet, Returns(files, 0, NoneRet),
                _build_motion_filter(MOTION_PRESETS[call_args.motion],
                                     call_args.duration, call_args.intensity,
                                     call_args.fps, call_args.canvas.w,
                                     call_args.canvas.h))

-----------------------------------------------------------------------------
(* Template selector (visual_engine/selector.py) *)

SECTION_TEMPLATE_MAP ==
    [title_card |->
        [intro |-> "neon_pulse", main |-> "split_reveal",
         demo |-> "typewriter_reveal", deep_dive |-> "glitch_drop",
         comparison |-> "countdown_slam", conclusion |-> "neon_pulse"],
     screenshot |->
        [intro |-> "spotlight_zoom", main |-> "browser_mockup",
         demo |-> "dashboard_reveal", deep_dive |-> "browser_mockup",
         comparison |-> "comparison_split", conclusion |-> "polaroid_drop"]]

FALLBACK_TITLE_TEMPLATE == "typewriter_reveal"
FALLBACK_SCREENSHOT_TEMPLATE == "browser_mockup"

SECTION_MOTION_MAP ==
    [intro |-> "slow_push_in", main |-> "drift_left", demo |-> "slow_pull_out",
     deep_dive |-> "diagonal_float", comparison |-> "static",
     conclusion |-> "slow_pull_out"]

TEMPLATE_ATMOSPHERE_MAP ==
    [typewriter_reveal |-> "flicker", glitch_drop |-> "glitch_flicker",
     neon_pulse |-> "vignette_pulse", countdown_slam |-> "vignette_pulse",
     split_reveal |-> "none", browser_mockup |-> "none",
     dashboard_reveal |-> "none", spotlight_zoom |-> "vignette_pulse",
     hologram_flicker |-> "chromatic_drift", matrix_rain |-> "vhs_wobble",
     particle_field |-> "none"]

\* dict.get(key, default)
Get(map, key, default) == IF key \in DOMAIN map THEN map[key] ELSE default

\* if override: (None and the empty string are false)
Truthy(override) == override \notin {NoneRet, ""}

MutSelectTemplateOneFallback(section_type, asset_type, override) ==
    IF Truthy(override) THEN override
    ELSE IF asset_type \in DOMAIN SECTION_TEMPLATE_MAP
         THEN Get(SECTION_TEMPLATE_MAP[asset_type], section_type,
                  FALLBACK_SCREENSHOT_TEMPLATE)
    ELSE FALLBACK_SCREENSHOT_TEMPLATE
select_template(section_type, asset_type, override) ==
    IF Truthy(override) THEN override
    ELSE IF asset_type = "title_card"
         THEN Get(SECTION_TEMPLATE_MAP.title_card, section_type,
                  FALLBACK_TITLE_TEMPLATE)
    ELSE IF asset_type \in DOMAIN SECTION_TEMPLATE_MAP
         THEN Get(SECTION_TEMPLATE_MAP[asset_type], section_type,
                  FALLBACK_SCREENSHOT_TEMPLATE)
    ELSE FALLBACK_SCREENSHOT_TEMPLATE

valid_screenshot_motions ==
    {"slow_push_in", "slow_pull_out", "drift_left", "drift_right",
     "diagonal_float"}

\* choice is what random.choice(valid_screenshot_motions) picks.
MutSelectMotionBySection(section_type, asset_type, override, choice) ==
    IF Truthy(override) THEN override
    ELSE IF asset_type = "screenshot" THEN choice
    ELSE Get(SECTION_MOTION_MAP, section_type, "slow_push_in")
select_motion(section_type, asset_type, override, choice) ==
    IF Truthy(override) THEN override
    ELSE IF asset_type = "title_card" THEN "static"
    ELSE IF asset_type = "screenshot" THEN choice
    ELSE Get(SECTION_MOTION_MAP, section_type, "slow_push_in")

select_atmosphere(template_name, override) ==
    IF Truthy(override) THEN override
    ELSE Get(TEMPLATE_ATMOSPHERE_MAP, template_name, "none")

\* The section types of a script, one of them without an entry in the maps.
SectionTypes ==
    {"intro", "main", "demo", "deep_dive", "comparison", "conclusion", "outro"}

SelectorAssetTypes == {"title_card", "screenshot", "generated"}

\* template_override, motion_override, atmosphere_override of the renderer
Overrides ==
    {[template |-> NoneRet, motion |-> NoneRet, atmosphere |-> NoneRet],
     [template |-> NoneRet, motion |-> "", atmosphere |-> NoneRet],
     [template |-> NoneRet, motion |-> "pendulum_sway", atmosphere |-> NoneRet],
     [template |-> "matrix_rain", motion |-> NoneRet, atmosphere |-> "film_grain"]}

SelectArgs ==
    {[stage |-> "select", section_type |-> st, asset_type |-> at,
      overrides |-> o] :
        st \in SectionTypes, at \in SelectorAssetTypes, o \in Overrides}

\* The treatment of one asset: select_template, select_motion and
\* select_atmosphere evaluated with the arguments in call_args.
\* first_ret keeps what the first evaluation returned.
Select(choice) ==
    /\ pc = "calc"
    /\ call_args.stage = "select"
    /\ LET a == call_args
           template == select_template(a.section_type, a.asset_type,
                                       a.overrides.template)
           treatment ==
               [template |-> template,
                motion |-> select_motion(a.section_type, a.asset_type,
                                         a.overrides.motion, choice),
                atmosphere |-> select_atmosphere(template,
                                                 a.overrides.atmosphere)]
       IN  last_call' =
               [Call("select", NoneRet, Returns(files, 0, NoneRet), <<>>)
                   EXCEPT !.ret = treatment,
                          !.first_ret = IF last_call.stage = "select"
                                        THEN last_call.first_ret
                                        ELSE treatment]
    /\ UNCHANGED <<pc, files, timed_assets, clip_path, idx, clips, video_path,
                   result, raised_in, mux_rc, meta_called, call_args, drift_log,
                   rendered_for, clip_durs>>
    /\ UNCHANGED syncVars

-----------------------------------------------------------------------------
(* Layer 3 of render_asset: the filters of the compositing invocation *)

\* i = max(0.05, min(1.0, intensity))
AtmosphereFloor == Rat(1, 20)
ClampIntensity(intensity) == RMax(AtmosphereFloor, RMin(RInt(1), intensity))

\* The numbers _build_atmosphere_filter writes into the filter of an
\* atmosphere: depth ({:.3f}) of flicker and vignette_pulse, i ({:.2f}) of
\* glitch_flicker and vhs_wobble, amp and amp // 2 of vhs_wobble.  name is
\* "" when the function returns the empty filter.
AtmosphereFilter(name, depth, i, amp) ==
    [name |-> name, depth |-> depth, i |-> i, amp |-> amp,
     half_amp |-> amp \div 2]

_build_atmosphere_filter(atmosphere, duration, intensity) ==
    LET i == ClampIntensity(intensity)
    IN  CASE atmosphere = "flicker" ->
                 AtmosphereFilter(atmosphere,
                                  Format(RMul(Rat(8, 100), i), Thousand), Zero, 0)
          [] atmosphere = "glitch_flicker" ->
                 AtmosphereFilter(atmosphere, Zero, Format(i, 100), 0)
          [] atmosphere = "vhs_wobble" ->
                 AtmosphereFilter(atmosphere, Zero, Format(i, 100),
                                  Floor(RMul(RInt(8), i)))
          [] atmosphere = "vignette_pulse" ->
                 AtmosphereFilter(atmosphere,
                                  Format(RMul(Rat(5, 100), i), Thousand), Zero, 0)
          [] atmosphere = "chromatic_drift" ->
                 AtmosphereFilter(atmosphere, Zero, Zero, 0)
          [] OTHER -> AtmosphereFilter("", Zero, Zero, 0)

\* The -vf and -t of the ffmpeg invocation of render_animated_clip: the
\* motion filter, then the atmosphere filter, both built from the one
\* intensity argument.
CompositingInvocation(duration, motion, atmosphere, intensity, fps, w, h) ==
    [vf_motion |->
         _build_motion_filter(
             MOTION_PRESETS[IF motion \in DOMAIN MOTION_PRESETS
                            THEN motion ELSE "slow_push_in"],
             duration, intensity, fps, w, h),
     vf_atmosphere |-> _build_atmosphere_filter(atmosphere, duration, intensity),
     t |-> duration]

MutRenderLayer3ByAtmosphereIntensity(cfg, section_type, asset_type, template_name, choice, duration) ==
    CompositingInvocation(
        duration,
        select_motion(section_type, asset_type, cfg.motion_override, choice),
        select_atmosphere(template_name, cfg.atmosphere_override),
        cfg.atmosphere_intensity, cfg.fps, cfg.width, cfg.height)

\* render_asset from "Layer 3" on: the invocation it makes for an asset
\* with the template template_name.  cfg holds the attributes of the
\* VisualRenderer, choice is what random.choice draws.
RenderLayer3(cfg, section_type, asset_type, template_name, choice, duration) ==
    CompositingInvocation(
        duration,
        select_motion(section_type, asset_type, cfg.motion_override, choice),
        select_atmosphere(template_name, cfg.atmosphere_override),
        cfg.motion_intensity, cfg.fps, cfg.width, cfg.height)

\* The VisualRenderer of _run_visual_engine.
VisualRenderer(motion_intensity, atmosphere_intensity) ==
    [width |-> 1920, height |-> 1080, fps |-> 30,
     motion_intensity |-> motion_intensity,
     atmosphere_intensity |-> atmosphere_intensity,
     motion_override |-> NoneRet, atmosphere_override |-> NoneRet]

\* visual_cfg["atmosphere_intensity"]: the default and two other settings
AtmosphereIntensities == {Rat(3, 10), Rat(1, 100), RInt(1)}

\* One template for each atmosphere, and one the table does not have.
Layer3Templates ==
    {"typewriter_reveal", "glitch_drop", "neon_pulse", "split_reveal",
     "hologram_flicker", "matrix_rain", "unmapped_template"}

\* Two renderers that differ at most in atmosphere_intensity render the
\* same asset.
Layer3Args ==
    {[stage |-> "render_asset", asset_type |-> type, template_name |-> t,
      window |-> w, motion_intensity |-> mi, atmosphere_intensity |-> ai] :
        type \in RunAssetTypes, t \in Layer3Templates, w \in {0, 5},
        mi \in {Rat(1, 100), Rat(7, 20), RInt(2)},
        ai \in AtmosphereIntensities \X AtmosphereIntensities}

\* The two renderers run render_asset on the asset, with the same draw of
\* random.choice: what each hands to ffmpeg.
ComputeLayer3(choice) ==
    /\ call_args.stage = "render_asset"
    /\ LET a == call_args
           duration == RInt(RenderDuration([window |-> a.window]))
           run(k) == RenderLayer3(VisualRenderer(a.motion_intensity,
                                                 a.atmosphere_intensity[k]),
                                  "main", a.asset_type, a.template_name,
                                  choice, duration)
       IN  Computes("render_asset", NoneRet, Returns(files, 0, NoneRet),
                    <<run(1), run(2)>>)

-----------------------------------------------------------------------------
(* _build_video_track with its arithmetic: the durations of the clips, the *)
(* offsets of the crossfade and the correction of the duration.            *)

\* display_end - display_start (whole seconds) of the assets of the call
TrackWindows == {0, 1, 5}

\* total_dur = sum(c.duration_seconds for c in audio_chunks): the windows
\* of the assets tile the narration.
RECURSIVE TotalOfWindows(_)
TotalOfWindows(ws) ==
    IF ws = <<>> THEN 0 ELSE Head(ws) + TotalOfWindows(Tail(ws))

VideoTrackArgs ==
    {[stage |-> "_build_video_track", windows |-> ws, td |-> td,
      parsed |-> parsed] :
        ws \in SeqsUpTo(TrackWindows, 1, MaxXfadeClips),
        td \in TransitionDurations, parsed \in BOOLEAN}

\* The length of the track the xfade chain writes: the last clip starts at
\* the last offset (one clip: the clip itself).
XfadeLength(durs, td) ==
    RAdd(XfadeCum(durs, td, Len(durs) - 1), durs[Len(durs)])

\* video_track = await self._build_video_track(visual_assets, total_dur,
\* output_stem), every process exiting 0.
ComputeVideoTrack ==
    /\ call_args.stage = "_build_video_track"
    /\ LET ws == call_args.windows
           n == Len(ws)
           total_dur == RInt(TotalOfWindows(ws))
           durs == [i \in 1..n |-> RInt(TrackDuration([window |-> ws[i]]))]
           real == XfadeLength(durs, call_args.td)
           actual == _duration(real, call_args.parsed)
           probe == TrimPadProbe(actual, total_dur)
           e == _build_video_track(files, [i \in 1..n |-> NoneRet],
                                   [k \in 1..(n + 2) |-> 0], probe)
       IN  Computes("_build_video_track", VideoTrack, e,
                    [durs |-> durs,
                     offsets |-> IF n >= 2
                                 THEN XfadeOffsets(durs, call_args.td)
                                 ELSE <<>>,
                     real |-> real, actual |-> actual, probe |-> probe,
                     total_dur |-> total_dur,
                     stop_duration |-> StopDuration(actual, total_dur)])

-----------------------------------------------------------------------------
(* The specification of the direct calls with numeric arguments *)

CalcArgs ==
    XfadeArgs \cup TrimPadArgs \cup MotionArgs \cup SelectArgs
        \cup VideoTrackArgs \cup Layer3Args

\* The files a call reads.
CalcInputs(args) ==
    IF args.stage = "_xfade"
    THEN {StaticClip(k) : k \in DOMAIN args.durs}
    ELSE IF args.stage = "_trim_pad" THEN {ClipsConcat}
    ELSE {}

InitCalc ==
    /\ phase = "visuals"
    /\ visual_assets = <<>>
    /\ audio_chunks = <<>>
    /\ voice_next = 1
    /\ timed = <<>>
    /\ pc = "calc"
    /\ call_args \in CalcArgs
    /\ files = CalcInputs(call_args)
    /\ timed_assets = <<>>
    /\ clip_path = <<>>
    /\ idx = 0
    /\ clips = <<>>
    /\ video_path = NoneRet
    /\ result = PipelineResult
    /\ raised_in = "none"
    /\ mux_rc = NoExit
    /\ meta_called = FALSE
    /\ last_call = NoCall
    /\ drift_log = NoDrift
    /\ rendered_for = {}
    /\ clip_durs = <<>>

NextCalc ==
    \/ \E rc \in ExitCodes :
           \/ ComputeXfade(rc)
           \/ ComputeTrimPad(rc)
    \/ ComputeMotionFilter
    \/ ComputeVideoTrack
    \/ \E choice \in valid_screenshot_motions :
           \/ Select(choice)
           \/ ComputeLayer3(choice)

SpecCalc == InitCalc /\ [][NextCalc]_vars

-----------------------------------------------------------------------------
(* Properties of the arithmetic *)

\* d_0 + ... + d_(i-1): the durations of the first i clips
RECURSIVE SumFirst(_, _)
SumFirst(durs, i) == IF i = 0 THEN Zero ELSE RAdd(SumFirst(durs, i - 1), durs[i])

\* (sum of d_k for k < i) - i*td, as the filter text carries it (3 decimals)
OffsetOfTransition(durs, td, i) ==
    Format(RSub(SumFirst(durs, i), RMul(RInt(i), td)), Thousand)

\* C13: in _xfade with n >= 2 clips the crossfade is one ffmpeg invocation
\* whose i-th transition (i = 1..n-1) has offset (sum of d_k for k < i) -
\* i*td, written with three decimals; with exactly one clip no ffmpeg
\* invocation is made and the result is the clip itself, copied.
C13_XfadeOffsets ==
    (last_call.stage = "_xfade" /\ ~last_call.existed) =>
        LET durs == call_args.durs
            n == Len(durs)
        IN  /\ n >= 2 =>
                /\ last_call.procs = 1
                /\ Len(last_call.args) = n - 1
                /\ \A i \in 1..(n - 1) :
                       last_call.args[i] =
                           OffsetOfTransition(durs, call_args.td, i)
            /\ n = 1 =>
                /\ last_call.procs = 0
                /\ last_call.args = <<>>
                /\ ~last_call.raised
                /\ last_call.ret = ClipsConcat
                /\ ClipsConcat \in files

C13_Witness ==
    /\ last_call.stage = "_xfade" /\ ~last_call.existed /\ ~last_call.raised
    /\ Len(call_args.durs) = 3
    /\ call_args.durs[1] # call_args.durs[2]
    /\ call_args.td = Rat(3333, 10000)
    /\ Len(last_call.args) = 2

FiveFiveFive == <<RInt(5), RInt(5), RInt(5)>>

\* C14 (as stated): three clips of 5 s, 5 s, 5 s and td = 0.5: transition 1
\* at offset 4.5, transition 2 at offset 8.5.
C14_OffsetsExample ==
    (/\ last_call.stage = "_xfade" /\ last_call.procs > 0
     /\ call_args.durs = FiveFiveFive /\ call_args.td = Rat(1, 2)) =>
        last_call.args = <<Rat(9, 2), Rat(17, 2)>>

\* C14 (amended): three clips of 5 s, 5 s, 5 s and td = 0.5: transition 1
\* at offset 4.5, transition 2 at offset 9.0 (5 + 5 - 2 * 0.5).
C14_OffsetsAreFourAndAHalfAndNine ==
    (/\ last_call.stage = "_xfade" /\ last_call.procs > 0
     /\ call_args.durs = FiveFiveFive /\ call_args.td = Rat(1, 2)) =>
        last_call.args = <<Rat(9, 2), RInt(9)>>

C14_Witness ==
    /\ last_call.stage = "_xfade" /\ last_call.procs > 0 /\ ~last_call.raised
    /\ call_args.durs = FiveFiveFive /\ call_args.td = Rat(1, 2)
    /\ ClipsConcat \in files

\* C15: _trim_pad copies the track when its probed duration is within 0.1 s
\* of the target, trims it to the target when it is longer, clones the last
\* frame for (target - actual) seconds when it is shorter, and in all three
\* branches the resulting track's duration is within 0.1 s of the target.
C15_TrimPadReachesTarget ==
    (last_call.stage = "_trim_pad" /\ ~last_call.raised) =>
        LET c == last_call.args
            target == call_args.target
            gap == RSub(c.duration, target)
        IN  /\ c.probe = "within" <=> RLt(RAbs(RSub(c.actual, target)), Tenth)
            /\ c.probe = "longer" => RLt(target, c.actual)
            /\ c.probe = "shorter" =>
                   /\ RLt(c.actual, target)
                   /\ c.stop_duration = RSub(target, c.actual)
            /\ RLt(RAbs(gap), Tenth)

\* ze' - zoom_start = (zoom_end - zoom_start) * intensity of the call
ScaledRange ==
    LET p == MOTION_PRESETS[call_args.motion]
    IN  RMul(RSub(p.zoom_end, p.zoom_start), call_args.intensity)

\* total_frames, the step of the zoom and the worked example, common to
\* both readings of C18.
MotionFilterArithmetic ==
    LET a == call_args
        f == last_call.args
        p == MOTION_PRESETS[a.motion]
    IN  /\ f.total_frames =
               (IF (a.duration.n * a.fps) \div a.duration.d >= 1
                THEN (a.duration.n * a.fps) \div a.duration.d ELSE 1)
        /\ ZoomAt(f, 0) = p.zoom_start
        /\ ~f.constant =>
               f.step = Format(RDivInt(ScaledRange, f.total_frames),
                               HundredMillion)
        /\ (/\ a.motion = "slow_push_in" /\ a.intensity = Rat(1, 2)
            /\ a.duration = RInt(3) /\ a.fps = 30) =>
               /\ f.total_frames = 90
               /\ ZoomAt(f, 0) = RInt(1)
               /\ Format(ZoomAt(f, 89), TenThousand) = Rat(10396, 10000)

\* C18 (as stated): total_frames = max(1, floor(duration*fps)); for every
\* preset whose zoom_start differs from zoom_end and every intensity > 0
\* the zoom is linear, zoom_start + ((ze' - zoom_start)/total_frames)*n; it
\* is the constant zoom_start only when the profile has zero zoom range;
\* slow_push_in at intensity 0.5, 3 s, 30 fps: zoom(0) = 1.0, zoom(89) = 1.0396.
C18_ConstantOnlyForZeroRange ==
    last_call.stage = "_build_motion_filter" =>
        /\ MotionFilterArithmetic
        /\ last_call.args.constant <=>
               (MOTION_PRESETS[call_args.motion].zoom_start =
                    MOTION_PRESETS[call_args.motion].zoom_end)

\* C18 (amended): total_frames = max(1, floor(duration*fps)); the zoom is
\* the constant zoom_start exactly when |(zoom_end - zoom_start)*intensity|
\* is below 0.001 (a zero range in particular, and any preset at a small
\* enough intensity); otherwise it is linear, zoom_start + step*n with step
\* = (ze' - zoom_start)/total_frames written with eight decimals;
\* slow_push_in at intensity 0.5, 3 s, 30 fps: zoom(0) = 1.0, zoom(89) = 1.0396.
C18_ConstantBelowTolerance ==
    last_call.stage = "_build_motion_filter" =>
        /\ MotionFilterArithmetic
        /\ last_call.args.constant <=>
               (/\ RLt(ScaledRange, Rat(1, 1000))
                /\ RLt(Rat(-1, 1000), ScaledRange))

C18_Witness ==
    /\ last_call.stage = "_build_motion_filter"
    /\ call_args.motion = "slow_push_in" /\ call_args.intensity = Rat(1, 2)
    /\ call_args.duration = RInt(3) /\ call_args.fps = 30
    /\ ~last_call.args.constant
    /\ last_call.args.step = Rat(44444, HundredMillion)

\* C19: two evaluations of select_template, select_motion and
\* select_atmosphere with the same (section_type, asset_type, overrides)
\* return the same (template, motion, atmosphere), screenshots included.
C19_SelectionIsAFunction ==
    last_call.stage = "select" => last_call.ret = last_call.first_ret

\* C20: with no motion override select_motion returns "static" for a title
\* card, one of slow_push_in, slow_pull_out, drift_left, drift_right,
\* diagonal_float for a screenshot, and SECTION_MOTION_MAP[section_type]
\* (slow_push_in for an unmapped section type) for any other asset type;
\* each of these values is a key of MOTION_PRESETS.
C20_MotionWithoutOverride ==
    (last_call.stage = "select" /\ ~Truthy(call_args.overrides.motion)) =>
        LET m == last_call.ret.motion
            st == call_args.section_type
            at == call_args.asset_type
        IN  /\ at = "title_card" => m = "static"
            /\ at = "screenshot" =>
                   m \in {"slow_push_in", "slow_pull_out", "drift_left",
                          "drift_right", "diagonal_float"}
            /\ at \notin {"title_card", "screenshot"} =>
                   m = (IF st \in DOMAIN SECTION_MOTION_MAP
                        THEN SECTION_MOTION_MAP[st] ELSE "slow_push_in")
            /\ m \in DOMAIN MOTION_PRESETS

C20_Witness ==
    /\ last_call.stage = "select"
    /\ call_args.overrides.motion = NoneRet
    /\ call_args.asset_type = "generated" /\ call_args.section_type = "outro"
    /\ last_call.ret.motion = "slow_push_in"

-----------------------------------------------------------------------------
(* Properties of the selector *)

\* The keys of template_map in VisualRenderer._build_template: the names
\* that have a template class of their own.
template_map ==
    {"typewriter_reveal", "split_reveal", "glitch_drop", "neon_pulse",
     "countdown_slam", "browser_mockup", "phone_frame_scroll", "spotlight_zoom",
     "comparison_split", "polaroid_drop", "dashboard_reveal", "counter_ticker",
     "bar_race", "progress_ring", "film_burn", "lens_flare_wipe",
     "shatter_break", "particle_field", "matrix_rain", "hologram_flicker"}

\* C21: select_template returns the override when one is given, otherwise
\* the SECTION_TEMPLATE_MAP entry of (section_type, asset_type) when the pair
\* is mapped, otherwise typewriter_reveal for a title card and browser_mockup
\* for anything else; every name returned without an override has a template
\* class in _build_template.
C21_TemplateSelection ==
    last_call.stage = "select" =>
        LET t == last_call.ret.template
            o == call_args.overrides.template
            st == call_args.section_type
            at == call_args.asset_type
            mapped == /\ at \in DOMAIN SECTION_TEMPLATE_MAP
                      /\ st \in DOMAIN SECTION_TEMPLATE_MAP[at]
        IN  /\ o # NoneRet => t = o
            /\ (o = NoneRet /\ mapped) => t = SECTION_TEMPLATE_MAP[at][st]
            /\ (o = NoneRet /\ ~mapped /\ at = "title_card") =>
                   t = "typewriter_reveal"
            /\ (o = NoneRet /\ ~mapped /\ at # "title_card") =>
                   t = "browser_mockup"
            /\ o = NoneRet => t \in template_map

C21_Witness ==
    /\ last_call.stage = "select"
    /\ call_args.overrides.template = NoneRet
    /\ call_args.section_type = "outro" /\ call_args.asset_type = "title_card"
    /\ last_call.ret.template = "typewriter_reveal"

-----------------------------------------------------------------------------
(* Properties of the SFX track *)

\* The transition cue the k-th asset of the call resolves to (NoneRet when
\* its template has none): whoosh_soft for a template TEMPLATE_SFX_MAP lacks.
CueOfAsset(k) ==
    LET t == call_args.assets[k].template_name
    IN  IF t \in DOMAIN TEMPLATE_SFX_MAP
        THEN TEMPLATE_SFX_MAP[t].transition_sfx
        ELSE "whoosh_soft"

CuedAssets == {k \in DOMAIN call_args.assets : CueOfAsset(k) # NoneRet}

\* The assets using cue q, the events recorded for q, the invocations for q
AssetsOfCue(q) == {k \in CuedAssets : CueOfAsset(k) = q}
EventsOfCue(q) ==
    {j \in DOMAIN last_call.args.events :
        last_call.args.events[j].sfx_path = SfxPath(q)}
InvocationsOfCue(q) ==
    {j \in DOMAIN last_call.args.invoked : last_call.args.invoked[j] = q}

\* The k-th element of a finite set of numbers, in increasing order
RECURSIVE Nth(_, _)
Nth(S, k) ==
    LET least == CHOOSE x \in S : \A y \in S : x <= y
    IN  IF k = 1 THEN least ELSE Nth(S \ {least}, k - 1)

\* The events of a list of assets, in the order of the assets
EventsOfAssets(ks) ==
    [j \in 1..Cardinality(ks) |->
        [ts |-> call_args.assets[Nth(ks, j)].display_start,
         sfx_path |-> SfxPath(CueOfAsset(Nth(ks, j)))]]

\* A call of build_sfx_track that went through its loop.
SfxTrackBuilt ==
    /\ last_call.stage = "build_sfx_track"
    /\ call_args.sfx_enabled /\ ~last_call.existed

\* C22 (as stated): build_sfx_track records exactly one event per asset
\* whose template resolves to a transition cue (whoosh_soft for a template
\* absent from TEMPLATE_SFX_MAP), timestamped at the asset's display_start,
\* and each distinct cue is synthesized by at most one external invocation.
C22_OneEventPerCuedAsset ==
    SfxTrackBuilt =>
        /\ last_call.args.events = EventsOfAssets(CuedAssets)
        /\ \A q \in SFX_LIBRARY : Cardinality(InvocationsOfCue(q)) <= 1

\* The assets that got an event: of the assets using a cue, the last ones,
\* as many as there are events of that cue.
AssetsWithEvent ==
    {k \in CuedAssets :
        Cardinality({j \in AssetsOfCue(CueOfAsset(k)) : j >= k})
            <= Cardinality(EventsOfCue(CueOfAsset(k)))}

\* C22 (amended): build_sfx_track records one event, timestamped at the
\* asset's display_start, for every asset whose template resolves to a
\* transition cue from the first such asset on for which the cue's file
\* exists or is generated with exit code 0; an asset whose generation fails
\* gets no event and the generation is invoked again for the next asset
\* using the cue; once the file exists the cue is not invoked again.
C22_EventsFromFirstSuccess ==
    SfxTrackBuilt =>
        /\ last_call.args.events = EventsOfAssets(AssetsWithEvent)
        /\ \A q \in SFX_LIBRARY :
               LET m == Cardinality(AssetsOfCue(q))
                   ev == Cardinality(EventsOfCue(q))
                   inv == Cardinality(InvocationsOfCue(q))
               IN  IF ev > 0
                   THEN /\ SfxPath(q) \in files
                        /\ inv <= 1 + (m - ev)
                        /\ inv >= m - ev
                   ELSE inv = m

C22_Witness ==
    /\ SfxTrackBuilt
    /\ Len(call_args.assets) = 2
    /\ call_args.assets[1].template_name = "unmapped_template"
    /\ call_args.assets[2].template_name = "unmapped_template"
    /\ call_args.assets[2].display_start = RInt(4)
    /\ last_call.args.invoked = <<"whoosh_soft">>
    /\ Len(last_call.args.events) = 2
    /\ SfxTrack \in files

\* C23: with SFX enabled build_sfx_track never raises on a subprocess
\* failure, returns output_path and always leaves a track there: silence
\* when no asset yields an event, silence again when the mix exits non-zero.
C23_AlwaysLeavesATrack ==
    SfxTrackBuilt =>
        /\ ~last_call.raised
        /\ last_call.ret = SfxTrack
        /\ SfxTrack \in files

-----------------------------------------------------------------------------
(* The life of an asset in assemble *)

\* The asset at position i has been given a clip in the crossfade list.
Assembled(i) == i \in DOMAIN clips

\* Both loops go through the assets one at a time, in list order, the
\* engine's loop before the assembler's; position i of the crossfade list
\* is asset i's clip.
OneAtATimeInOrder ==
    /\ Len(clips) <= Len(timed_assets)
    /\ pc = "e_assets" =>
           /\ clips = <<>>
           /\ \A i \in DOMAIN clip_path : Rendered(i) <=> i < idx
    /\ pc = "t_clips" => Len(clips) = idx - 1
    /\ \A i \in DOMAIN clips :
           clips[i] \in {AnimatedClipPath(timed_assets[i]), StaticClip(i)}

\* C24 (as stated): every asset that contributes a clip has passed Timed,
\* Treated, Rendered (its content frame exists), Animated (its clip was
\* produced) and Assembled in this order, one asset at a time in the order
\* of assign_timings, which is the order of the clips in the crossfade.
C24_EveryClipWentThroughTheEngine ==
    /\ OneAtATimeInOrder
    /\ \A i \in DOMAIN clips :
           /\ FramePath(timed_assets[i]) \in files
           /\ Rendered(i)
           /\ clips[i] = clip_path[i]

\* C24 (amended): every asset that contributes its engine clip has passed
\* Timed, Treated, Rendered (its frame path exists), Animated (its clip path
\* is set and the file exists) and Assembled in this order; an asset for
\* which the engine left no clip file contributes a statically rendered
\* clip made straight from the timed asset; assets are processed one at a
\* time in the order of assign_timings in both loops, which is the order of
\* the clips in the crossfade.
C24_EngineClipOrStaticClip ==
    /\ OneAtATimeInOrder
    /\ \A i \in DOMAIN clips :
           /\ clips[i] \in files
           /\ clips[i] # StaticClip(i) =>
                  /\ Rendered(i) /\ clips[i] = clip_path[i]
                  /\ FramePath(timed_assets[i]) \in files
           /\ clips[i] = StaticClip(i) =>
                  ~Rendered(i) \/ clip_path[i] \notin files

C24_Witness ==
    /\ pc = "returned" /\ result.success
    /\ Len(clips) = 2
    /\ clips[1] = clip_path[1]
    /\ clips[2] = StaticClip(2)

RECURSIVE FracLe(_, _, _, _)
\* a/b <= c/d for a, c >= 0 and b, d > 0, by continued fractions (no
\* product of the two fractions is ever formed)
FracLe(a, b, c, d) ==
    IF a \div b # c \div d THEN a \div b < c \div d
    ELSE IF a % b = 0 THEN TRUE
    ELSE IF c % d = 0 THEN FALSE
    ELSE FracLe(d, c % d, b, a % b)

\* 0 <= size/2 - size/zoom/2 + pan <= size - size/zoom, pan = pnum/pden,
\* which is |pan| <= size*(zoom - 1)/(2*zoom), that is
\* 2*|pan|/size <= (zoom - 1)/zoom.
WindowInside(size, zoom, pnum, pden) ==
    /\ zoom.n >= zoom.d
    /\ FracLe(2 * Abs(pnum), pden * size, zoom.n - zoom.d, zoom.n)

\* The crop origin of frame n stays inside the pre-scaled frame, on x and
\* on y: pan(n) = ps + (pe - ps)/total_frames * n.
CropInsideAt(f, n) ==
    /\ WindowInside(f.scale_w, ZoomAt(f, n),
                    f.pxs * f.total_frames + (f.pxe - f.pxs) * n,
                    f.total_frames)
    /\ WindowInside(f.scale_h, ZoomAt(f, n),
                    f.pys * f.total_frames + (f.pye - f.pys) * n,
                    f.total_frames)

\* C25: for every motion preset, every intensity and every frame n in
\* 0..total_frames the crop origin x(n) = iw/2 - iw/zoom(n)/2 + pan_x(n)
\* satisfies 0 <= x(n) <= iw - iw/zoom(n), and likewise y(n), iw x ih being
\* the pre-scaled frame of even dimensions floor(canvas * max(zoom) * 1.1):
\* the visible window never leaves the pre-scaled frame.
C25_WindowStaysInFrame ==
    last_call.stage = "_build_motion_filter" =>
        LET f == last_call.args
            a == call_args
            p == MOTION_PRESETS[a.motion]
            top == RMax(p.zoom_start,
                        RAdd(p.zoom_start,
                             RMul(RSub(p.zoom_end, p.zoom_start),
                                  a.intensity)))
            dim(c) == Floor(RMul(RMul(RInt(c), top), Rat(11, 10)))
        IN  /\ f.scale_w \in {dim(a.canvas.w), dim(a.canvas.w) + 1}
            /\ f.scale_h \in {dim(a.canvas.h), dim(a.canvas.h) + 1}
            /\ f.scale_w % 2 = 0 /\ f.scale_h % 2 = 0
            /\ \A n \in 0..f.total_frames : CropInsideAt(f, n)

-----------------------------------------------------------------------------
(* Properties of the clip durations *)

\* display_end - display_start of the i-th timed asset, floored at 1.0 s
FlooredWindow(i) ==
    IF timed_assets[i].window >= 1 THEN timed_assets[i].window ELSE 1

-----------------------------------------------------------------------------
(* Properties of the whole timeline *)

\* total_dur = sum(c.duration_seconds for c in audio_chunks)
RECURSIVE SumOfDurations(_)
SumOfDurations(chunks) ==
    IF chunks = <<>> THEN Zero
    ELSE RAdd(Head(chunks).duration_seconds, SumOfDurations(Tail(chunks)))

RECURSIVE SumOfWindows(_)
SumOfWindows(ws) ==
    IF ws = <<>> THEN Zero
    ELSE RAdd(RSub(Head(ws).display_end, Head(ws).display_start),
              SumOfWindows(Tail(ws)))

EveryTimedSectionHasOneTitleCard ==
    \A sid \in DOMAIN Timing : CountOf(sid, "title_card") = 1

\* C27: when the chunks come from synthesise_script and every section with
\* a chunk has exactly one title card, the windows of all the assets
\* assign_timings returns are pairwise non-overlapping across sections and
\* tile [0, total narration duration) without gaps, so the window lengths
\* sum to the target duration assemble uses.
C27_WindowsTileTheNarration ==
    (phase = "timed" /\ EveryTimedSectionHasOneTitleCard) =>
        /\ Tiles(timed, Zero, SumOfDurations(audio_chunks))
        /\ SumOfWindows(timed) = SumOfDurations(audio_chunks)

\* Two narrated sections of positive length, each with its title card, one
\* of them with a screenshot.
C27_Witness ==
    /\ phase = "timed" /\ EveryTimedSectionHasOneTitleCard
    /\ Len(audio_chunks) = 2
    /\ \A i \in DOMAIN audio_chunks : RLt(Zero, audio_chunks[i].duration_seconds)
    /\ \E i \in DOMAIN timed : timed[i].asset_type = "screenshot"
    /\ Len(timed) >= 3

\* The windows of the call all last at least 1.0 s and longer than td.
WindowsLongEnough ==
    \A i \in DOMAIN call_args.windows :
        /\ call_args.windows[i] >= 1
        /\ RLt(call_args.td, RInt(call_args.windows[i]))

\* display_start of the asset at 0-based position i when the windows tile
\* [0, T): the sum of the windows before it.
DisplayStart(i) == RInt(TotalOfWindows(SubSeq(call_args.windows, 1, i)))

\* (n - 1) * td
CrossfadeLoss == RMul(RInt(Len(call_args.windows) - 1), call_args.td)

\* C28: when the n >= 2 assets' windows tile [0, T) and every window is at
\* least 1.0 s and longer than td, the crossfaded track has the nominal
\* length T - (n-1)*td and the clip of asset i (0-based) begins in it at
\* display_start_i - i*td (written with three decimals); consequently
\* whenever (n-1)*td >= 0.1 the duration correction takes the pad branch
\* and holds the last frame for (n-1)*td seconds.
C28_CrossfadeShortensThenPads ==
    (/\ last_call.stage = "_build_video_track"
     /\ Len(call_args.windows) >= 2 /\ WindowsLongEnough) =>
        LET c == last_call.args
            n == Len(call_args.windows)
        IN  /\ c.total_dur = DisplayStart(n)
            /\ c.real = RSub(c.total_dur, CrossfadeLoss)
            /\ \A i \in 1..(n - 1) :
                   c.offsets[i] =
                       Format(RSub(DisplayStart(i),
                                   RMul(RInt(i), call_args.td)), Thousand)
            /\ RLe(Rat(1, 10), CrossfadeLoss) =>
                   /\ c.probe = "shorter"
                   /\ c.stop_duration = CrossfadeLoss

-----------------------------------------------------------------------------
(* Properties of the intensities *)

\* The motion intensity of the call, brought into [0.05, 1.0].
ClampedMotionIntensity ==
    IF RLt(call_args.motion_intensity, Rat(5, 100)) THEN Rat(5, 100)
    ELSE IF RLt(RInt(1), call_args.motion_intensity) THEN RInt(1)
    ELSE call_args.motion_intensity

\* The amplitudes of the atmosphere filter f are those of the intensity i.
AmplitudesFrom(f, i) ==
    /\ f.name \in {"flicker"} => f.depth = Format(RMul(Rat(8, 100), i), Thousand)
    /\ f.name \in {"vignette_pulse"} =>
           f.depth = Format(RMul(Rat(5, 100), i), Thousand)
    /\ f.name \in {"glitch_flicker", "vhs_wobble"} => f.i = Format(i, 100)
    /\ f.name \in {"vhs_wobble"} =>
           /\ f.amp = (8 * i.n) \div i.d
           /\ f.half_amp = f.amp \div 2

\* C29: the configured atmosphere_intensity has no effect: two renderers
\* that differ only in atmosphere_intensity issue identical compositing
\* invocations for an asset (random.choice drawing the same motion), the
\* amplitudes of the atmosphere filter being computed from the motion
\* intensity clamped to [0.05, 1.0].
C29_AtmosphereIntensityIgnored ==
    last_call.stage = "render_asset" =>
        /\ last_call.args[1] = last_call.args[2]
        /\ \A k \in {1, 2} :
               AmplitudesFrom(last_call.args[k].vf_atmosphere,
                              ClampedMotionIntensity)

\* Atmosphere intensities 0.3 and 1.0, motion intensity 2.0 (clamped to
\* 1.0), the flicker of typewriter_reveal: depth 0.080 in both runs.
C29_Witness ==
    /\ last_call.stage = "render_asset"
    /\ call_args.atmosphere_intensity = <<Rat(3, 10), RInt(1)>>
    /\ call_args.motion_intensity = RInt(2)
    /\ call_args.template_name = "typewriter_reveal"
    /\ last_call.args[1].vf_atmosphere.name = "flicker"
    /\ last_call.args[2].vf_atmosphere.depth = Rat(8, 100)

-----------------------------------------------------------------------------
(* Properties of the fallback to static clips *)

\* render_all raised while it processed an asset (or the engine failed
\* before its loop): from that asset on no clip_path was set.
EngineRaised == \E i \in DOMAIN clip_path : ~Rendered(i)

\* The loop of _build_video_track has been left: by its end, or by an
\* exception of _img_to_clip.
ClipLoopLeft ==
    \/ pc = "t_clips" /\ idx > Len(timed_assets)
    \/ pc = "t_trim"
    \/ raised_in = "_img_to_clip"

\* C30: if render_all raises while processing any asset, _run_visual_engine
\* swallows the exception and returns the assets in the same order;
\* _build_video_track then still produces exactly one clip per asset in
\* that order, the engine clip for an asset only if its clip_path is set
\* and the file exists, a statically rendered clip for every other asset.
C30_OneClipPerAssetAfterEngineFailure ==
    /\ (EngineRaised /\ pc \in {"a_track", "t_clips", "t_trim"}) =>
           /\ raised_in = "none"
           /\ Len(clip_path) = Len(timed_assets)
    /\ (EngineRaised /\ ClipLoopLeft) =>
           /\ Len(clips) = Len(timed_assets)
           /\ \A i \in DOMAIN clips :
                  /\ clips[i] \in files
                  /\ clips[i] = IF Rendered(i) /\ clip_path[i] \in files
                                THEN clip_path[i] ELSE StaticClip(i)

=============================================================================
